---- MODULE Spec2Model ----
(***************************************************************************)
(* Model of the arranger audio server: Schedule / Dispatcher               *)
(* (scheduler.cpp), AudioEngine (audio_engine.cpp), and the built-in nodes *)
(* the engine drives (synth_node.cpp).                                     *)
(*                                                                         *)
(* Beats are doubles in the source.  The model measures them in integer    *)
(* ticks; one audio block advances the playhead by bpm_ ticks (the         *)
(* source's frames * bpm / 60 / sample_rate).                              *)
(***************************************************************************)
EXTENDS Integers, Sequences, FiniteSets, TLC

\* ------------------------------------------------------------------ bounds
MaxBeat   == 2      \* largest beat (in ticks) an input event carries
MaxEvents == 2      \* longest event batch handed to Schedule::from_json
MaxSched  == 3      \* Schedule objects allocated in one run
MaxGraphs == 3      \* Graph objects allocated in one run
MaxQueue  == 2      \* commands posted between two audio blocks
MaxPreview == 2     \* preview events queued between two audio blocks

NULL == 0           \* nullptr

\* ----------------------------------------------------------------- helpers
Range(s) == {s[i] : i \in 1..Len(s)}

SeqsUpTo(S, n) == UNION {[1..k -> S] : k \in 0..n}

\* ------------------------------------------------------------- event batch
\* The "type" strings Schedule::from_json accepts.
KnownTypes == {"note_on", "note_off", "program", "volume", "bend", "control"}

\* Input events of the model: the JSON fields of one event of a batch.
Pitches  == {60}
InBeats  == -1..MaxBeat
InTypes  == {"note_on", "note_off", "program"}
InNodes  == {"synth1", "track1", "ghost"}

JsonEvents == [beat : InBeats, type : InTypes, node_id : InNodes,
               channel : {0}, pitch : Pitches, velocity : {100}]

Batches == SeqsUpTo(JsonEvents, MaxEvents)

\* priority lambda of Schedule::from_json
priority(t) == CASE t = "note_off" -> 0
                 [] t = "bend"     -> 1
                 [] t = "program"  -> 1
                 [] t = "volume"   -> 1
                 [] t = "control"  -> 1
                 [] t = "note_on"  -> 2
                 [] OTHER          -> 1

\* comparator handed to std::stable_sort
EventLess(a, b) == IF a.beat # b.beat THEN a.beat < b.beat
                   ELSE priority(a.type) < priority(b.type)

\* std::stable_sort: e, which came after every element of the sorted prefix,
\* goes before the first element that is greater than it.
StableInsert(sorted, e) ==
  LET later == {i \in 1..Len(sorted) : EventLess(e, sorted[i])}
      pos   == IF later = {} THEN Len(sorted) + 1
               ELSE CHOOSE i \in later : \A j \in later : i <= j
  IN  SubSeq(sorted, 1, pos - 1) \o <<e>> \o SubSeq(sorted, pos, Len(sorted))

RECURSIVE StableSort(_)
StableSort(s) == IF s = <<>> THEN <<>>
                 ELSE StableInsert(StableSort(SubSeq(s, 1, Len(s) - 1)), s[Len(s)])

\* mutant: a negative beat is stored as submitted
ClampBeat_Keep(je) == je

\* the per-event part of the parse loop: clamp a negative beat to 0
ClampBeat(je) == [je EXCEPT !.beat = IF je.beat < 0 THEN 0 ELSE je.beat]

RECURSIVE MaxBeatOf(_)
MaxBeatOf(s) == IF s = <<>> THEN 0
                ELSE LET m == MaxBeatOf(Tail(s))
                     IN  IF Head(s).beat > m THEN Head(s).beat ELSE m

\* mutant: an event of unknown type is dropped and the rest is accepted
from_json_SkipUnknown(batch) ==
  LET Known(je) == je.type \in KnownTypes
      evs == [i \in 1..Len(SelectSeq(batch, Known)) |->
                ClampBeat(SelectSeq(batch, Known)[i])]
  IN  [ok |-> TRUE, events_ |-> StableSort(evs), total_length_ |-> MaxBeatOf(evs)]

\* Schedule::from_json: NULL result (ok = FALSE) on an unknown type, else the
\* clamped events, stable-sorted, and total_length_ = the largest beat.
from_json(batch) ==
  IF \E i \in 1..Len(batch) : batch[i].type \notin KnownTypes
  THEN [ok |-> FALSE, events_ |-> <<>>, total_length_ |-> 0]
  ELSE LET evs == [i \in 1..Len(batch) |-> ClampBeat(batch[i])]
       IN  [ok |-> TRUE, events_ |-> StableSort(evs),
            total_length_ |-> MaxBeatOf(evs)]

\* ------------------------------------------------------------------- state
VARIABLES
  heap,             \* Schedule objects by address: state, events_, total_length_
  pending_,         \* Dispatcher::pending_  (atomic Schedule*)
  current_,         \* Dispatcher::current_
  idx_,             \* Dispatcher::idx_      (0-based, as in the source)
  graphs,           \* Graph objects by address: lifecycle state
  active_graph_,    \* AudioEngine::active_graph_ (atomic Graph*)
  owned_graph_,     \* AudioEngine::owned_graph_
  retiring_graph_,  \* AudioEngine::retiring_graph_
  playing_,         \* AudioEngine::playing_
  current_beat_,    \* AudioEngine::current_beat_
  bpm_,             \* AudioEngine::bpm_ (ticks one block advances)
  pending_loop_,    \* AudioEngine::pending_loop_
  active_loop_,     \* AudioEngine::active_loop_
  cmd_queue_,       \* AudioEngine::cmd_queue_
  voices_,          \* SineNode::voices_ of each sine node
  pending_on_,      \* TrackSourceNode::pending_on_
  pending_off_,     \* TrackSourceNode::pending_off_
  log,              \* observation: the node hooks invoked, in order
  blk,              \* observation: what the last block did
  held,             \* observation: preview notes delivered downstream and not
                    \* taken back since by a preview note-off or all-notes-off
  ctl,              \* control thread: position and locals of the call in progress
  aud               \* audio thread: position and locals of the block in progress

dispVars   == <<heap, pending_, current_, idx_>>
graphVars  == <<graphs, active_graph_, owned_graph_, retiring_graph_>>
transVars  == <<playing_, current_beat_, bpm_, pending_loop_, active_loop_, cmd_queue_>>
nodeVars   == <<voices_, pending_on_, pending_off_>>
obsVars    == <<log, blk, held>>
threadVars == <<ctl, aud>>
vars == <<dispVars, graphVars, transVars, nodeVars, obsVars, threadVars>>

\* ------------------------------------------------------------------- graph
\* The graph description the engine runs: a track source feeding a sine synth
\* feeding the mixer.
GraphDesc ==
  [nodes |-> << [id |-> "track1", type |-> "track_source"],
                [id |-> "synth1", type |-> "sine"],
                [id |-> "mixer",  type |-> "mixer"] >>,
   connections |->
     << [from_node |-> "track1", from_port |-> "events",
         to_node   |-> "synth1", to_port   |-> "events"],
        [from_node |-> "synth1", from_port |-> "audio_out_L",
         to_node   |-> "mixer",  to_port   |-> "audio_in_L_0"],
        [from_node |-> "synth1", from_port |-> "audio_out_R",
         to_node   |-> "mixer",  to_port   |-> "audio_in_R_0"] >>]

NodeIds == {GraphDesc.nodes[i].id : i \in 1..Len(GraphDesc.nodes)}

\* Graph::find_node: the node with this id, or NoNode (nullptr)
NoNode == "nullptr"
find_node(id) == IF id \in NodeIds THEN id ELSE NoNode

NodeType(id) == LET i == CHOOSE k \in 1..Len(GraphDesc.nodes) : GraphDesc.nodes[k].id = id
                IN  GraphDesc.nodes[i].type

SineIds == {id \in NodeIds : NodeType(id) = "sine"}

\* Graph::eval_order(): the order topo_sort leaves for this chain, every
\* connection going forward.
eval_order ==
  CHOOSE o \in [1..Len(GraphDesc.nodes) -> NodeIds] :
    /\ \A i, j \in DOMAIN o : i # j => o[i] # o[j]
    /\ \A c \in Range(GraphDesc.connections) :
         \E i, j \in DOMAIN o : i < j /\ o[i] = c.from_node /\ o[j] = c.to_node

\* Graph::activate, the downstream list handed to a track source: the
\* destinations of its outgoing connections, each once, in connection order.
RECURSIVE DownstreamUpTo(_, _)
DownstreamUpTo(src, n) ==
  IF n = 0 THEN <<>>
  ELSE LET prev == DownstreamUpTo(src, n - 1)
           c    == GraphDesc.connections[n]
       IN  IF c.from_node # src THEN prev
           ELSE IF find_node(c.to_node) = NoNode THEN prev
           ELSE IF c.to_node \in Range(prev) THEN prev
           ELSE Append(prev, c.to_node)

downstream_(src) == DownstreamUpTo(src, Len(GraphDesc.connections))

\* ------------------------------------------------------------------- nodes
\* SineNode voice key
VoiceKey(channel, pitch) == channel * 128 + pitch

NoVoices == [n \in SineIds |-> << >>]

\* SineNode::note_on / note_off / all_notes_off on one node's voice map
\* (key -> releasing flag).
SineHook(v, hook, a) ==
  LET key == VoiceKey(a.channel, a.pitch) IN
  CASE hook = "note_on"  -> [k \in DOMAIN v \cup {key} |-> IF k = key THEN FALSE ELSE v[k]]
    [] hook = "note_off" -> IF key \in DOMAIN v THEN [v EXCEPT ![key] = TRUE] ELSE v
    [] hook = "all_notes_off" ->
         IF a.channel = -1 THEN << >>
         ELSE [k \in {x \in DOMAIN v : x \div 128 # a.channel} |-> v[k]]
    [] OTHER -> v

LogEntry(node, hook, a, ev, fwd) ==
  [node |-> node, hook |-> hook, channel |-> a.channel, pitch |-> a.pitch,
   ev |-> ev, fwd |-> fwd]

\* One hook call on a node that does not forward: st = [voices, log].
HookLeaf(st, node, hook, a, ev, fwd) ==
  [voices |-> IF NodeType(node) = "sine"
              THEN [st.voices EXCEPT ![node] = SineHook(st.voices[node], hook, a)]
              ELSE st.voices,
   log    |-> Append(st.log, LogEntry(node, hook, a, ev, fwd))]

RECURSIVE ForwardAll(_, _, _, _, _)
ForwardAll(st, ds, hook, a, ev) ==
  IF ds = <<>> THEN st
  ELSE ForwardAll(HookLeaf(st, Head(ds), hook, a, ev, TRUE), Tail(ds), hook, a, ev)

\* A virtual hook call node->hook(a).  TrackSourceNode forwards note_on,
\* note_off, program_change, pitch_bend, channel_volume and all_notes_off to
\* its downstream nodes; the Node base class ignores every hook.
Hook(st, node, hook, a, ev) ==
  LET st1 == [st EXCEPT !.log = Append(st.log, LogEntry(node, hook, a, ev, FALSE))] IN
  CASE NodeType(node) = "track_source" ->
         IF hook = "push_control" THEN st1
         ELSE ForwardAll(st1, downstream_(node), hook, a, ev)
    [] OTHER -> HookLeaf(st, node, hook, a, ev, FALSE)

AllOff == [channel |-> -1, pitch |-> 0, velocity |-> 0]

\* for (auto& nid : g->eval_order()) { n = find_node(nid); if (n) n->all_notes_off(-1); }
RECURSIVE AllNotesOffFrom(_, _)
AllNotesOffFrom(st, order) ==
  IF order = <<>> THEN st
  ELSE AllNotesOffFrom(
         IF find_node(Head(order)) # NoNode
         THEN Hook(st, Head(order), "all_notes_off", AllOff, 0) ELSE st,
         Tail(order))

GraphAllNotesOff(st) == AllNotesOffFrom(st, eval_order)

\* -------------------------------------------------------------- dispatcher
\* the hook an event type maps to in Dispatcher::dispatch
HookOf(type) == CASE type = "note_on"  -> "note_on"
                  [] type = "note_off" -> "note_off"
                  [] type = "program"  -> "program_change"
                  [] type = "volume"   -> "channel_volume"
                  [] type = "bend"     -> "pitch_bend"
                  [] type = "control"  -> "push_control"

\* Dispatcher::reindex on an event vector: the 0-based index of the first
\* event with beat >= the given beat, or size().
reindex(evts, beat) ==
  LET at == {i \in 1..Len(evts) : evts[i].beat >= beat}
  IN  IF at = {} THEN Len(evts)
      ELSE (CHOOSE i \in at : \A j \in at : i <= j) - 1

\* mutant: the loop stops at an event whose node is missing
RECURSIVE DispatchLoop_HaltOnMissing(_, _, _, _, _)
DispatchLoop_HaltOnMissing(st, i, evts, start_beat, end_beat) ==
  IF i >= Len(evts) THEN [st |-> st, idx |-> i]
  ELSE LET e == evts[i + 1]
           effective_beat == IF e.beat < 0 THEN 0 ELSE e.beat
       IN  IF effective_beat >= end_beat THEN [st |-> st, idx |-> i]
           ELSE IF effective_beat >= start_beat /\ find_node(e.node_id) = NoNode
           THEN [st |-> st, idx |-> i]
           ELSE DispatchLoop_HaltOnMissing(
                  IF effective_beat >= start_beat
                  THEN Hook(st, e.node_id, HookOf(e.type), e, i + 1)
                  ELSE st,
                  i + 1, evts, start_beat, end_beat)

\* mutant: every event the cursor walks over is delivered, also one before
\* the start of the window
RECURSIVE DispatchLoop_NoStartGuard(_, _, _, _, _)
DispatchLoop_NoStartGuard(st, i, evts, start_beat, end_beat) ==
  IF i >= Len(evts) THEN [st |-> st, idx |-> i]
  ELSE LET e == evts[i + 1]
           effective_beat == IF e.beat < 0 THEN 0 ELSE e.beat
       IN  IF effective_beat >= end_beat THEN [st |-> st, idx |-> i]
           ELSE DispatchLoop_NoStartGuard(
                  IF find_node(e.node_id) # NoNode
                  THEN Hook(st, e.node_id, HookOf(e.type), e, i + 1)
                  ELSE st,
                  i + 1, evts, start_beat, end_beat)

\* the while loop of Dispatcher::dispatch, from cursor i: r = [st, idx]
RECURSIVE DispatchLoop(_, _, _, _, _)
DispatchLoop(st, i, evts, start_beat, end_beat) ==
  IF i >= Len(evts) THEN [st |-> st, idx |-> i]
  ELSE LET e == evts[i + 1]
           effective_beat == IF e.beat < 0 THEN 0 ELSE e.beat
       IN  IF effective_beat >= end_beat THEN [st |-> st, idx |-> i]
           ELSE DispatchLoop(
                  IF effective_beat >= start_beat /\ find_node(e.node_id) # NoNode
                  THEN Hook(st, e.node_id, HookOf(e.type), e, i + 1)
                  ELSE st,
                  i + 1, evts, start_beat, end_beat)

\* mutant: the window's end is taken as inclusive
dispatch_InclusiveEnd(st, cur, i, start_beat, end_beat, graph) ==
  IF cur = NULL \/ graph = NULL THEN [st |-> st, idx |-> i]
  ELSE DispatchLoop(st, i, heap[cur].events_, start_beat, end_beat + 1)

\* Dispatcher::dispatch(start_beat, end_beat, graph) on the current schedule
dispatch(st, cur, i, start_beat, end_beat, graph) ==
  IF cur = NULL \/ graph = NULL THEN [st |-> st, idx |-> i]
  ELSE DispatchLoop(st, i, heap[cur].events_, start_beat, end_beat)

\* Dispatcher::arrangement_length
arrangement_length(cur) == IF cur # NULL THEN heap[cur].total_length_ ELSE 0

\* delete p: freeing an object twice is recorded, not hidden
Delete(h, p) ==
  IF p = NULL THEN h
  ELSE [h EXCEPT ![p].state = IF @ = "live" THEN "freed" ELSE "double-freed"]

\* mutant: check_pending rewinds the cursor whether or not a schedule was pending
check_pending_AlwaysReindex(d) ==
  IF d.pending = NULL
  THEN [d EXCEPT !.idx = IF d.current = NULL THEN 0
                         ELSE reindex(d.heap[d.current].events_, 0)]
  ELSE [heap    |-> Delete(d.heap, d.current),
        pending |-> NULL,
        current |-> d.pending,
        idx     |-> reindex(d.heap[d.pending].events_, 0)]

\* Dispatcher::check_pending run without interruption: d = the dispatcher's
\* members [heap, pending, current, idx]
check_pending(d) ==
  IF d.pending = NULL THEN d
  ELSE [heap    |-> Delete(d.heap, d.current),
        pending |-> NULL,
        current |-> d.pending,
        idx     |-> reindex(d.heap[d.pending].events_, 0)]

\* Dispatcher::seek(beat) -> reindex(beat)
seek(cur, beat) == IF cur = NULL THEN 0 ELSE reindex(heap[cur].events_, beat)

\* ------------------------------------------------------------ node process
\* TrackSourceNode::process: the queued preview note-offs, then the queued
\* preview note-ons, each to every downstream node.
RECURSIVE PreviewOffs(_, _, _)
PreviewOffs(st, node, offs) ==
  IF offs = <<>> THEN st
  ELSE PreviewOffs(
         IF Head(offs).channel = -1
         THEN ForwardAll(st, downstream_(node), "all_notes_off", AllOff, -1)
         ELSE ForwardAll(st, downstream_(node), "note_off", Head(offs), -1),
         node, Tail(offs))

RECURSIVE PreviewOns(_, _, _)
PreviewOns(st, node, ons) ==
  IF ons = <<>> THEN st
  ELSE PreviewOns(ForwardAll(st, downstream_(node), "note_on", Head(ons), -1),
                  node, Tail(ons))

ProcessMark(node) == [node |-> node, hook |-> "process", channel |-> 0, pitch |-> 0,
                      ev |-> 0, fwd |-> FALSE]

\* SineNode::process: a releasing voice whose envelope has decayed below 1e-4
\* is erased; dead is the set of keys whose envelope got there in this block.
SineProcess(v, dead) ==
  [k \in {x \in DOMAIN v : ~(v[x] /\ x \in dead)} |-> v[k]]

\* node->process(ctx, inputs, outputs): n = [st, on, off]
NodeProcess(n, node, dead) ==
  LET st1 == [n.st EXCEPT !.log = Append(n.st.log, ProcessMark(node))] IN
  CASE NodeType(node) = "track_source" ->
         [st  |-> PreviewOns(PreviewOffs(st1, node, n.off), node, n.on),
          on  |-> <<>>, off |-> <<>>]
    [] NodeType(node) = "sine" ->
         [n EXCEPT !.st = [st1 EXCEPT !.voices[node] = SineProcess(st1.voices[node], dead)]]
    [] OTHER -> [n EXCEPT !.st = st1]

RECURSIVE ProcessNodes(_, _, _)
ProcessNodes(n, order, dead) ==
  IF order = <<>> THEN n
  ELSE ProcessNodes(
         IF find_node(Head(order)) # NoNode THEN NodeProcess(n, Head(order), dead) ELSE n,
         Tail(order), dead)

\* mutant: Graph::process runs no node
GraphProcess_Skip(n, dead) == n

\* Graph::process on an activated graph
GraphProcess(n, dead) == ProcessNodes(n, eval_order, dead)

\* ------------------------------------------------------------------ engine
Cmd(c, arg) == [cmd |-> c, arg |-> arg]

\* mutant: Seek moves the playhead and cursor without silencing the nodes
DrainCmd_SeekNoSweep(d, ce, cur, graph) ==
  LET off == IF graph # NULL THEN GraphAllNotesOff(d.st) ELSE d.st IN
  CASE ce.cmd = "Play" -> [d EXCEPT !.playing = TRUE]
    [] ce.cmd = "Stop" -> [d EXCEPT !.playing = FALSE, !.st = off]
    [] ce.cmd = "Seek" -> [d EXCEPT !.idx = seek(cur, ce.arg), !.beat = ce.arg]
    [] ce.cmd = "AllNotesOff" -> [d EXCEPT !.st = off]
    [] OTHER -> d

\* one iteration of the command loop of process_block:
\* d = [playing, beat, idx, st]
DrainCmd(d, ce, cur, graph) ==
  LET off == IF graph # NULL THEN GraphAllNotesOff(d.st) ELSE d.st IN
  CASE ce.cmd = "Play" -> [d EXCEPT !.playing = TRUE]
    [] ce.cmd = "Stop" -> [d EXCEPT !.playing = FALSE, !.st = off]
    [] ce.cmd = "Seek" -> [d EXCEPT !.idx = seek(cur, ce.arg), !.beat = ce.arg, !.st = off]
    [] ce.cmd = "AllNotesOff" -> [d EXCEPT !.st = off]
    [] OTHER -> d

RECURSIVE Drain(_, _, _, _)
Drain(d, q, cur, graph) ==
  IF q = <<>> THEN d
  ELSE Drain(DrainCmd(d, Head(q), cur, graph), Tail(q), cur, graph)

\* a LoopState*; NoLoop is nullptr
LoopState(start, end, enabled) ==
  [set |-> TRUE, start |-> start, end |-> end, enabled |-> enabled]
NoLoop == [set |-> FALSE, start |-> 0, end |-> 0, enabled |-> FALSE]

\* active_loop_ && active_loop_->enabled
LoopEnabled(l) == l.set /\ l.enabled

\* mutant: the loop wraps only once end_beat has passed the loop end
LoopOrEnd_StrictLoopEnd(e, end_beat, loop, cur, graph) ==
  IF LoopEnabled(loop)
  THEN IF end_beat > loop.end
       THEN [e EXCEPT !.idx = seek(cur, loop.start), !.beat = loop.start, !.wrapped = TRUE]
       ELSE e
  ELSE IF arrangement_length(cur) > 0 /\ end_beat >= arrangement_length(cur)
       THEN [e EXCEPT !.playing = FALSE, !.beat = 0, !.ended = TRUE,
                      !.st = IF graph # NULL THEN GraphAllNotesOff(e.st) ELSE e.st]
       ELSE e

\* mutant: the end of the arrangement stops playback but keeps the playhead
LoopOrEnd_NoBeatReset(e, end_beat, loop, cur, graph) ==
  IF LoopEnabled(loop)
  THEN IF end_beat >= loop.end
       THEN [e EXCEPT !.idx = seek(cur, loop.start), !.beat = loop.start, !.wrapped = TRUE]
       ELSE e
  ELSE IF arrangement_length(cur) > 0 /\ end_beat >= arrangement_length(cur)
       THEN [e EXCEPT !.playing = FALSE, !.ended = TRUE,
                      !.st = IF graph # NULL THEN GraphAllNotesOff(e.st) ELSE e.st]
       ELSE e

\* the loop / end-of-arrangement rule at the end of a playing block:
\* e = [playing, beat, idx, st, wrapped, ended]
LoopOrEnd(e, end_beat, loop, cur, graph) ==
  IF LoopEnabled(loop)
  THEN IF end_beat >= loop.end
       THEN [e EXCEPT !.idx = seek(cur, loop.start), !.beat = loop.start, !.wrapped = TRUE]
       ELSE e
  ELSE IF arrangement_length(cur) > 0 /\ end_beat >= arrangement_length(cur)
       THEN [e EXCEPT !.playing = FALSE, !.beat = 0, !.ended = TRUE,
                      !.st = IF graph # NULL THEN GraphAllNotesOff(e.st) ELSE e.st]
       ELSE e

\* ------------------------------------------------------------ initial state
\* A Schedule object as Schedule::from_json leaves it.
NewSchedule(batch) ==
  LET r == from_json(batch)
  IN  [state |-> "live", events_ |-> r.events_, total_length_ |-> r.total_length_]

NoSchedule == [state |-> "unallocated", events_ |-> <<>>, total_length_ |-> 0]

BlkNone == [n |-> 0, start |-> 0, end |-> 0, playing |-> FALSE,
            wrapped |-> FALSE, ended |-> FALSE,
            idx_drained |-> 0, playing_out |-> FALSE, after_wrap |-> FALSE,
            out |-> "none"]

Idle == [pc |-> "idle"]

\* Dispatcher members after construction
DispInit == /\ heap = [s \in 1..MaxSched |-> NoSchedule]
            /\ pending_ = NULL /\ current_ = NULL /\ idx_ = 0

\* AudioEngine graph members after construction
GraphInit == /\ graphs = [g \in 1..MaxGraphs |-> "unallocated"]
             /\ active_graph_ = NULL /\ owned_graph_ = NULL /\ retiring_graph_ = NULL

\* the engine after one successful set_graph(GraphDesc)
GraphInstalled == /\ graphs = [g \in 1..MaxGraphs |-> IF g = 1 THEN "activated" ELSE "unallocated"]
                  /\ active_graph_ = 1 /\ owned_graph_ = 1 /\ retiring_graph_ = NULL

\* AudioEngine transport members after construction
TransInit == /\ playing_ = FALSE /\ current_beat_ = 0 /\ bpm_ = 1
             /\ pending_loop_ = NoLoop /\ active_loop_ = NoLoop /\ cmd_queue_ = <<>>

\* node members after Graph::activate
NodeInit == /\ voices_ = NoVoices /\ pending_on_ = <<>> /\ pending_off_ = <<>>

ObsInit == log = <<>> /\ blk = BlkNone /\ held = {}

ThreadInit == ctl = Idle /\ aud = Idle

\* ------------------------------------------------- dispatcher on its own
\* test_graph.cpp: a Dispatcher given a schedule by swap_schedule and
\* check_pending, then driven by dispatch() over contiguous blocks from beat 0.
DispTestInit ==
  /\ \E batch \in Batches :
       heap = [s \in 1..MaxSched |-> IF s = 1 THEN NewSchedule(batch) ELSE NoSchedule]
  /\ pending_ = NULL /\ current_ = 1
  /\ idx_ = reindex(heap[1].events_, 0)
  /\ GraphInstalled /\ TransInit /\ NodeInit /\ ObsInit /\ ThreadInit

\* disp.dispatch(b_i, b_{i+1}, graph) with b_i the end of the previous block
DispatchBlock(end_beat) ==
  LET r == dispatch([voices |-> voices_, log |-> log], current_, idx_,
                    blk.end, end_beat, active_graph_)
  IN  /\ idx_'    = r.idx
      /\ voices_' = r.st.voices
      /\ log'     = r.st.log
      /\ blk'     = [blk EXCEPT !.n = IF blk.n < 2 THEN blk.n + 1 ELSE 2,
                                !.start = blk.end, !.end = end_beat]
      /\ UNCHANGED <<heap, pending_, current_, graphVars, transVars,
                     pending_on_, pending_off_, held, threadVars>>

DispNext == \E end_beat \in blk.end..(MaxBeat + 1) : DispatchBlock(end_beat)

SpecDisp == DispTestInit /\ [][DispNext]_vars

\* ------------------------------------------- engine, one call at a time
\* The public operations of AudioEngine and the audio callback, each run
\* without interruption by the other thread.

\* AudioEngine::send_cmd
send_cmd(c, arg) == /\ Len(cmd_queue_) < MaxQueue
                    /\ cmd_queue_' = Append(cmd_queue_, Cmd(c, arg))

\* AudioEngine::play
Play ==
  LET d == check_pending([heap |-> heap, pending |-> pending_,
                          current |-> current_, idx |-> idx_])
  IN  /\ heap' = d.heap /\ pending_' = d.pending /\ current_' = d.current /\ idx_' = d.idx
      /\ playing_' = TRUE
      /\ send_cmd("Play", 0)
      /\ UNCHANGED <<graphVars, current_beat_, bpm_, pending_loop_, active_loop_,
                     nodeVars, obsVars, threadVars>>

\* AudioEngine::stop
Stop ==
  /\ send_cmd("Stop", 0)
  /\ UNCHANGED <<dispVars, graphVars, playing_, current_beat_, bpm_, pending_loop_,
                 active_loop_, nodeVars, obsVars, threadVars>>

\* AudioEngine::seek
Seek(beat) ==
  /\ send_cmd("Seek", beat)
  /\ UNCHANGED <<dispVars, graphVars, playing_, current_beat_, bpm_, pending_loop_,
                 active_loop_, nodeVars, obsVars, threadVars>>

\* AudioEngine::set_loop
SetLoop(start, end) ==
  /\ pending_loop_' = LoopState(start, end, TRUE)
  /\ UNCHANGED <<dispVars, graphVars, playing_, current_beat_, bpm_, active_loop_,
                 cmd_queue_, nodeVars, obsVars, threadVars>>

\* AudioEngine::disable_loop
DisableLoop ==
  /\ pending_loop_' = LoopState(0, 0, FALSE)
  /\ UNCHANGED <<dispVars, graphVars, playing_, current_beat_, bpm_, active_loop_,
                 cmd_queue_, nodeVars, obsVars, threadVars>>

\* AudioEngine::set_bpm
SetBpm(v) ==
  /\ bpm_ # v
  /\ bpm_' = v
  /\ UNCHANGED <<dispVars, graphVars, playing_, current_beat_, pending_loop_, active_loop_,
                 cmd_queue_, nodeVars, obsVars, threadVars>>

\* find_track_source(g, node_id) of the preview calls
find_track_source(graph, node_id) ==
  IF graph = NULL THEN NoNode
  ELSE IF find_node(node_id) # NoNode /\ NodeType(node_id) = "track_source"
       THEN node_id ELSE NoNode

\* AudioEngine::preview_note_on -> TrackSourceNode::preview_note_on
PreviewNoteOn(node_id, channel, pitch, velocity) ==
  /\ Len(pending_on_) < MaxPreview
  /\ pending_on_' =
       IF find_track_source(active_graph_, node_id) # NoNode
       THEN Append(pending_on_, [channel |-> channel, pitch |-> pitch, velocity |-> velocity])
       ELSE pending_on_
  /\ UNCHANGED <<dispVars, graphVars, transVars, voices_, pending_off_, obsVars, threadVars>>

\* AudioEngine::preview_note_off -> TrackSourceNode::preview_note_off
PreviewNoteOff(node_id, channel, pitch) ==
  /\ Len(pending_off_) < MaxPreview
  /\ pending_off_' =
       IF find_track_source(active_graph_, node_id) # NoNode
       THEN Append(pending_off_, [channel |-> channel, pitch |-> pitch])
       ELSE pending_off_
  /\ UNCHANGED <<dispVars, graphVars, transVars, voices_, pending_on_, obsVars, threadVars>>

\* AudioEngine::preview_all_notes_off -> TrackSourceNode::preview_all_notes_off
PreviewAllNotesOff(node_id) ==
  /\ Len(pending_off_) < MaxPreview
  /\ IF find_track_source(active_graph_, node_id) # NoNode
     THEN /\ pending_on_'  = <<>>
          /\ pending_off_' = Append(pending_off_, [channel |-> -1, pitch |-> -1])
     ELSE UNCHANGED <<pending_on_, pending_off_>>
  /\ UNCHANGED <<dispVars, graphVars, transVars, voices_, obsVars, threadVars>>

\* The preview notes a track source's process leaves delivered: the queued
\* note-offs take theirs back (an all-notes-off takes all), the note-ons add.
RECURSIVE HeldAfterOffs(_, _)
HeldAfterOffs(h, offs) ==
  IF offs = <<>> THEN h
  ELSE HeldAfterOffs(IF Head(offs).channel = -1 THEN {}
                     ELSE h \ {VoiceKey(Head(offs).channel, Head(offs).pitch)},
                     Tail(offs))

HeldAfter(h, offs, ons) ==
  HeldAfterOffs(h, offs) \cup {VoiceKey(ons[i].channel, ons[i].pitch) : i \in 1..Len(ons)}

\* AudioEngine::process_block on the engine's members S, the whole callback:
\* the members as the callback leaves them, with what it observed.
process_block(S, dead) ==
  LET d1    == Drain([playing |-> S.playing, beat |-> S.beat, idx |-> S.idx,
                      st |-> [voices |-> S.voices, log |-> <<>>]],
                     S.queue, S.current, S.graph)
      loop  == IF S.pending_loop.set THEN S.pending_loop ELSE S.active_loop
      cp    == check_pending([heap |-> S.heap, pending |-> S.pending,
                              current |-> S.current, idx |-> d1.idx])
      graph == S.graph
      n0    == [st |-> d1.st, on |-> S.on, off |-> S.off]
      base  == [heap |-> cp.heap, pending |-> cp.pending, current |-> cp.current,
                active_loop |-> loop]
  IN
  IF ~d1.playing \/ graph = NULL
  THEN LET n1 == IF graph # NULL THEN GraphProcess(n0, dead) ELSE n0 IN
       base @@ [playing |-> d1.playing, beat |-> d1.beat, idx |-> cp.idx,
                voices |-> n1.st.voices, log |-> n1.st.log, on |-> n1.on, off |-> n1.off,
                blk |-> [n |-> 1, start |-> d1.beat, end |-> d1.beat, playing |-> FALSE,
                         wrapped |-> FALSE, ended |-> FALSE,
                         idx_drained |-> d1.idx, playing_out |-> d1.playing,
                         after_wrap |-> S.after_wrap,
                         out |-> IF graph # NULL THEN "graph" ELSE "silence"]]
  ELSE LET beat_pos == d1.beat
           end_beat == beat_pos + S.bpm
           r  == dispatch(d1.st, cp.current, cp.idx, beat_pos, end_beat, graph)
           n1 == GraphProcess([n0 EXCEPT !.st = r.st], dead)
           e  == LoopOrEnd([playing |-> d1.playing, beat |-> end_beat, idx |-> r.idx,
                            st |-> n1.st, wrapped |-> FALSE, ended |-> FALSE],
                           end_beat, loop, cp.current, graph)
       IN
       base @@ [playing |-> e.playing, beat |-> e.beat, idx |-> e.idx,
                voices |-> e.st.voices, log |-> e.st.log, on |-> n1.on, off |-> n1.off,
                blk |-> [n |-> 1, start |-> beat_pos, end |-> end_beat, playing |-> TRUE,
                         wrapped |-> e.wrapped, ended |-> e.ended,
                         idx_drained |-> d1.idx, playing_out |-> e.playing,
                         after_wrap |-> S.after_wrap, out |-> "graph"]]

\* observation: a direct all_notes_off(-1) call on node n
IsAllOff(l, n) == l.node = n /\ l.hook = "all_notes_off" /\ l.channel = -1 /\ ~l.fwd

\* observation: every node of the graph got all_notes_off(-1) at log positions
\* from..(to - 1)
SweepBetween(lg, from, to) ==
  \A n \in NodeIds : \E j \in from..(to - 1) : IsAllOff(lg[j], n)

SweepBefore(lg, k) == SweepBetween(lg, 1, k)

\* the engine's members as process_block reads them (after_wrap: the previous
\* block wrapped at the loop end and swept no node afterwards)
EngineState ==
  [heap |-> heap, pending |-> pending_, current |-> current_, idx |-> idx_,
   graph |-> active_graph_, playing |-> playing_, beat |-> current_beat_, bpm |-> bpm_,
   pending_loop |-> pending_loop_, active_loop |-> active_loop_, queue |-> cmd_queue_,
   voices |-> voices_, on |-> pending_on_, off |-> pending_off_,
   after_wrap |-> blk.wrapped /\ ~SweepBefore(log, Len(log) + 1)]

\* one audio callback, as it changes the engine and what is observed of it
RunBlock(dead) ==
  /\ current_beat_ <= MaxBeat + 1
  /\ \E r \in {process_block(EngineState, dead)} :
       /\ heap' = r.heap /\ pending_' = r.pending /\ current_' = r.current /\ idx_' = r.idx
       /\ playing_' = r.playing /\ current_beat_' = r.beat
       /\ active_loop_' = r.active_loop /\ pending_loop_' = NoLoop /\ cmd_queue_' = <<>>
       /\ voices_' = r.voices /\ pending_on_' = r.on /\ pending_off_' = r.off
       /\ log' = r.log /\ blk' = r.blk
  /\ held' = IF active_graph_ # NULL THEN HeldAfter(held, pending_off_, pending_on_) ELSE held
  /\ UNCHANGED <<graphVars, bpm_>>

\* one audio callback
ProcessBlock(dead) == RunBlock(dead) /\ UNCHANGED threadVars

Keys == {VoiceKey(0, p) : p \in Pitches}

\* -------------------------------------------------- transport specification
\* An engine with the graph installed and a schedule set, driven by play,
\* stop, seek, set_loop, disable_loop, set_bpm and audio blocks.
On(beat, node)  == [beat |-> beat, type |-> "note_on", node_id |-> node,
                    channel |-> 0, pitch |-> 60, velocity |-> 100]
Off(beat, node) == [beat |-> beat, type |-> "note_off", node_id |-> node,
                    channel |-> 0, pitch |-> 60, velocity |-> 100]

TransportBatches == { << On(0, "track1"), Off(1, "track1") >>,
                      << On(1, "synth1"), Off(2, "synth1") >> }

LoopInputs == { <<1, 2>> }
BpmInputs  == {1, 2}
SeekInputs == {0, MaxBeat}

\* the engine after set_graph(GraphDesc) and set_schedule(batch)
TransportInit ==
  /\ \E batch \in TransportBatches :
       heap = [s \in 1..MaxSched |-> IF s = 1 THEN NewSchedule(batch) ELSE NoSchedule]
  /\ pending_ = NULL /\ current_ = 1
  /\ idx_ = reindex(heap[1].events_, 0)
  /\ GraphInstalled /\ TransInit /\ NodeInit /\ ObsInit /\ ThreadInit

TransportNext ==
  \/ Play
  \/ Stop
  \/ \E b \in SeekInputs : Seek(b)
  \/ \E l \in LoopInputs : SetLoop(l[1], l[2])
  \/ DisableLoop
  \/ \E v \in BpmInputs : SetBpm(v)
  \/ \E dead \in SUBSET Keys : ProcessBlock(dead)

SpecTransport == TransportInit /\ [][TransportNext]_vars

\* ---------------------------------------------------- preview specification
\* An engine with the graph installed and no schedule, driven by the preview
\* calls, play, stop, seek and audio blocks.
PreviewInit ==
  DispInit /\ GraphInstalled /\ TransInit /\ NodeInit /\ ObsInit /\ ThreadInit

PreviewNext ==
  \/ \E p \in Pitches : PreviewNoteOn("track1", 0, p, 100)
  \/ \E p \in Pitches : PreviewNoteOff("track1", 0, p)
  \/ PreviewAllNotesOff("track1")
  \/ Play
  \/ Stop
  \/ \E b \in SeekInputs : Seek(b)
  \/ \E dead \in SUBSET Keys : ProcessBlock(dead)

SpecPreview == PreviewInit /\ [][PreviewNext]_vars

\* ------------------------------------------------- graph swap, two threads
\* set_graph on the control thread against audio callbacks of an engine that
\* has no schedule and is not playing.  graph_mutex_ is taken by set_graph
\* only, so it orders nothing against the callback; the callback meets
\* set_graph through active_graph_ and through the lifetime of the Graph
\* objects.  graph_epoch_ is never written or read by any code.
GraphBpms == {0, 1, 2}    \* the "bpm" of the graph JSON, 0 for none

GraphCtlIdle == [pc |-> "idle", g |-> NULL, last |-> NULL, bpm |-> 0]
GraphAudIdle == [pc |-> "idle", graph |-> NULL]

FreeGraphs == {g \in 1..MaxGraphs : graphs[g] = "unallocated"}

\* the engine's graph members
GraphMembers == [graphs |-> graphs, active |-> active_graph_,
                 owned |-> owned_graph_, retiring |-> retiring_graph_]

\* ~Graph on the object a unique_ptr gives up
Destroy(gs, g) == IF g = NULL THEN gs ELSE [gs EXCEPT ![g] = "freed"]

\* set_graph: retiring_graph_.reset(); retiring_graph_ = std::move(owned_graph_)
retire(G) ==
  [G EXCEPT !.graphs = Destroy(G.graphs, G.retiring), !.retiring = G.owned, !.owned = NULL]

\* mutant: the new graph is owned but its pointer is not stored
publish_NoStore(G, g) == [G EXCEPT !.owned = g]

\* set_graph: owned_graph_ = std::move(g); active_graph_.store(owned_graph_.get())
publish(G, g) == [G EXCEPT !.owned = g, !.active = g]

SetGraphMembers(G) ==
  /\ graphs' = G.graphs /\ active_graph_' = G.active
  /\ owned_graph_' = G.owned /\ retiring_graph_' = G.retiring

\* set_graph: Graph::from_json builds the nodes of a new Graph
SetGraphBuild(bpm) ==
  /\ ctl.pc = "idle" /\ FreeGraphs # {}
  /\ LET g == CHOOSE x \in FreeGraphs : \A y \in FreeGraphs : x <= y IN
       /\ graphs' = [graphs EXCEPT ![g] = "built"]
       /\ ctl' = [ctl EXCEPT !.pc = "built", !.g = g, !.bpm = bpm]
  /\ UNCHANGED <<dispVars, active_graph_, owned_graph_, retiring_graph_, transVars,
                 nodeVars, obsVars, aud>>

\* set_graph: g->activate(...), then the bpm of the JSON if it has one
SetGraphActivate ==
  /\ ctl.pc = "built"
  /\ graphs' = [graphs EXCEPT ![ctl.g] = "activated"]
  /\ bpm_' = IF ctl.bpm # 0 THEN ctl.bpm ELSE bpm_
  /\ ctl' = [ctl EXCEPT !.pc = "activated", !.bpm = 0]
  /\ UNCHANGED <<dispVars, active_graph_, owned_graph_, retiring_graph_, playing_,
                 current_beat_, pending_loop_, active_loop_, cmd_queue_,
                 nodeVars, obsVars, aud>>

\* set_graph: the graph retired by the previous call is destroyed, the one
\* in use until now is retired
SetGraphRetire ==
  /\ ctl.pc = "activated"
  /\ SetGraphMembers(retire(GraphMembers))
  /\ ctl' = [ctl EXCEPT !.pc = "retired"]
  /\ UNCHANGED <<dispVars, transVars, nodeVars, obsVars, aud>>

\* set_graph: the new graph is published and the call returns
SetGraphPublish ==
  /\ ctl.pc = "retired"
  /\ SetGraphMembers(publish(GraphMembers, ctl.g))
  /\ ctl' = [ctl EXCEPT !.pc = "idle", !.g = NULL, !.last = ctl.g]
  /\ UNCHANGED <<dispVars, transVars, nodeVars, obsVars, aud>>

\* process_block: nothing queued, then graph = active_graph_.load()
AudLoadGraph ==
  /\ aud.pc = "idle"
  /\ aud' = [aud EXCEPT !.pc = "in_block", !.graph = active_graph_]
  /\ UNCHANGED <<dispVars, graphVars, transVars, nodeVars, obsVars, ctl>>

\* process_block: graph->process(ctx) and the copy of its output are done
AudEndBlock ==
  /\ aud.pc = "in_block"
  /\ aud' = [aud EXCEPT !.pc = "idle", !.graph = NULL]
  /\ UNCHANGED <<dispVars, graphVars, transVars, nodeVars, obsVars, ctl>>

GraphSwapInit ==
  /\ DispInit /\ GraphInit /\ TransInit /\ NodeInit /\ ObsInit
  /\ ctl = GraphCtlIdle /\ aud = GraphAudIdle

GraphSwapNext ==
  \/ \E bpm \in GraphBpms : SetGraphBuild(bpm)
  \/ SetGraphActivate
  \/ SetGraphRetire
  \/ SetGraphPublish
  \/ AudLoadGraph
  \/ AudEndBlock

SpecGraphSwap == GraphSwapInit /\ [][GraphSwapNext]_vars

\* ---------------------------------------------- schedule swap, two threads
\* set_schedule and play on the control thread against audio callbacks, each
\* thread taking one access to the dispatcher's members at a time.  pending_
\* is the only atomic member; current_, idx_ and the Schedule objects are
\* plain memory that both threads read and write.  A read through a pointer
\* to a destroyed Schedule is recorded in the reading thread's read_freed and
\* may yield anything.
SchedBatches == TransportBatches

SchedThread == [pc |-> "idle", call |-> "none", s |-> NULL, p |-> NULL, old |-> NULL,
                cur |-> NULL, returned |-> NULL, read_freed |-> FALSE]

CpPcs == {"cp_exchange", "cp_old", "cp_store", "cp_reindex", "cp_delete"}

FreeSlots == {s \in 1..MaxSched : heap[s].state = "unallocated"}

\* the dispatcher's members
DispatcherMembers == [heap |-> heap, pending |-> pending_, current |-> current_, idx |-> idx_]

SetDispatcherMembers(D) ==
  heap' = D.heap /\ pending_' = D.pending /\ current_' = D.current /\ idx_' = D.idx

\* Dispatcher::check_pending, the next access of thread t (its position and
\* locals) to the members D: the outcomes it can have
check_pending_step(t, D) ==
  CASE t.pc = "cp_exchange" ->
         { [t |-> IF D.pending = NULL THEN [t EXCEPT !.pc = "cp_done"]
                  ELSE [t EXCEPT !.pc = "cp_old", !.p = D.pending],
            D |-> [D EXCEPT !.pending = NULL]] }
    [] t.pc = "cp_old" ->
         { [t |-> [t EXCEPT !.pc = "cp_store", !.old = D.current], D |-> D] }
    [] t.pc = "cp_store" ->
         { [t |-> [t EXCEPT !.pc = "cp_reindex", !.p = NULL],
            D |-> [D EXCEPT !.current = t.p, !.idx = 0]] }
    [] t.pc = "cp_reindex" ->
         IF D.current = NULL
         THEN { [t |-> [t EXCEPT !.pc = "cp_delete"], D |-> [D EXCEPT !.idx = 0]] }
         ELSE IF D.heap[D.current].state = "live"
         THEN { [t |-> [t EXCEPT !.pc = "cp_delete"],
                 D |-> [D EXCEPT !.idx = reindex(D.heap[D.current].events_, 0)]] }
         ELSE { [t |-> [t EXCEPT !.pc = "cp_delete", !.read_freed = TRUE],
                 D |-> [D EXCEPT !.idx = i]] : i \in 0..MaxEvents }
    [] t.pc = "cp_delete" ->
         { [t |-> [t EXCEPT !.pc = "cp_done", !.old = NULL],
            D |-> [D EXCEPT !.heap = Delete(D.heap, t.old)]] }

\* set_schedule: Schedule::from_json, then swap_schedule(sched.release())
SetScheduleBegin(batch) ==
  /\ ctl.pc = "idle" /\ FreeSlots # {} /\ from_json(batch).ok
  /\ LET s == CHOOSE x \in FreeSlots : \A y \in FreeSlots : x <= y IN
       /\ heap' = [heap EXCEPT ![s] = NewSchedule(batch)]
       /\ pending_' = s
       /\ ctl' = [ctl EXCEPT !.pc = "cp_exchange", !.call = "set_schedule", !.s = s]
  /\ UNCHANGED <<current_, idx_, graphVars, transVars, nodeVars, obsVars, aud>>

\* play: entered, about to call dispatcher_.check_pending()
PlayBegin ==
  /\ ctl.pc = "idle" /\ Len(cmd_queue_) < MaxQueue
  /\ ctl' = [ctl EXCEPT !.pc = "cp_exchange", !.call = "play"]
  /\ UNCHANGED <<dispVars, graphVars, transVars, nodeVars, obsVars, aud>>

\* the control thread inside check_pending
CtlCheckPending ==
  /\ ctl.pc \in CpPcs
  /\ \E r \in check_pending_step(ctl, DispatcherMembers) :
       ctl' = r.t /\ SetDispatcherMembers(r.D)
  /\ UNCHANGED <<graphVars, transVars, nodeVars, obsVars, aud>>

\* check_pending is over: set_schedule returns; play sets playing_ and posts Play
CtlReturn ==
  /\ ctl.pc = "cp_done"
  /\ IF ctl.call = "play"
     THEN /\ playing_' = TRUE
          /\ cmd_queue_' = Append(cmd_queue_, Cmd("Play", 0))
          /\ ctl' = [ctl EXCEPT !.pc = "idle", !.call = "none"]
     ELSE /\ ctl' = [ctl EXCEPT !.pc = "idle", !.call = "none", !.s = NULL,
                                !.returned = ctl.s]
          /\ UNCHANGED <<playing_, cmd_queue_>>
  /\ UNCHANGED <<dispVars, graphVars, current_beat_, bpm_, pending_loop_, active_loop_,
                 nodeVars, obsVars, aud>>

\* process_block: the queued commands and the pending loop are taken
AudBegin ==
  /\ aud.pc = "idle" /\ current_beat_ <= MaxBeat + 1
  /\ \E d1 \in {Drain([playing |-> playing_, beat |-> current_beat_, idx |-> idx_,
                       st |-> [voices |-> voices_, log |-> <<>>]],
                      cmd_queue_, current_, active_graph_)} :
       /\ playing_' = d1.playing /\ current_beat_' = d1.beat /\ idx_' = d1.idx
       /\ voices_' = d1.st.voices
  /\ cmd_queue_' = <<>>
  /\ active_loop_' = IF pending_loop_.set THEN pending_loop_ ELSE active_loop_
  /\ pending_loop_' = NoLoop
  /\ aud' = [aud EXCEPT !.pc = "cp_exchange"]
  /\ UNCHANGED <<heap, pending_, current_, graphVars, bpm_, pending_on_, pending_off_,
                 obsVars, ctl>>

\* the audio thread inside check_pending
AudCheckPending ==
  /\ aud.pc \in CpPcs
  /\ \E r \in check_pending_step(aud, DispatcherMembers) :
       aud' = r.t /\ SetDispatcherMembers(r.D)
  /\ UNCHANGED <<graphVars, transVars, nodeVars, obsVars, ctl>>

\* process_block after check_pending: a block that is not playing processes
\* the graph and returns; a playing one enters dispatch, which loads current_
AudAfterCheck(dead) ==
  /\ aud.pc = "cp_done"
  /\ IF ~playing_ \/ active_graph_ = NULL
     THEN /\ \E n \in {IF active_graph_ # NULL
                       THEN GraphProcess([st |-> [voices |-> voices_, log |-> <<>>],
                                          on |-> pending_on_, off |-> pending_off_], dead)
                       ELSE [st |-> [voices |-> voices_, log |-> <<>>],
                             on |-> pending_on_, off |-> pending_off_]} :
               voices_' = n.st.voices /\ pending_on_' = n.on /\ pending_off_' = n.off
          /\ aud' = [aud EXCEPT !.pc = "idle"]
     ELSE /\ aud' = [aud EXCEPT !.pc = "dispatch", !.cur = current_]
          /\ UNCHANGED nodeVars
  /\ UNCHANGED <<dispVars, graphVars, transVars, obsVars, ctl>>

\* Dispatcher::dispatch: the loop over current_->events() through the
\* reference taken at its top
AudDispatch ==
  /\ aud.pc = "dispatch"
  /\ IF aud.cur # NULL /\ heap[aud.cur].state # "live"
     THEN /\ \E i \in 0..MaxEvents : idx_' = i
          /\ aud' = [aud EXCEPT !.pc = "finish", !.cur = NULL, !.read_freed = TRUE]
          /\ UNCHANGED voices_
     ELSE /\ \E r \in {dispatch([voices |-> voices_, log |-> <<>>], aud.cur, idx_,
                                current_beat_, current_beat_ + bpm_, active_graph_)} :
               idx_' = r.idx /\ voices_' = r.st.voices
          /\ aud' = [aud EXCEPT !.pc = "finish", !.cur = NULL]
  /\ UNCHANGED <<heap, pending_, current_, graphVars, transVars, pending_on_, pending_off_,
                 obsVars, ctl>>

\* process_block: graph->process, the beat advanced, then the loop and
\* end-of-arrangement rule on arrangement_length(), read through current_
AudFinish(dead) ==
  /\ aud.pc = "finish"
  /\ LET stale == current_ # NULL /\ heap[current_].state # "live"
         n1 == GraphProcess([st |-> [voices |-> voices_, log |-> <<>>],
                             on |-> pending_on_, off |-> pending_off_], dead)
         e0 == [playing |-> playing_, beat |-> current_beat_ + bpm_, idx |-> idx_,
                st |-> n1.st, wrapped |-> FALSE, ended |-> FALSE]
     IN  /\ \E e \in {LoopOrEnd(e0, current_beat_ + bpm_, active_loop_, current_,
                                active_graph_)} \cup (IF stale THEN {e0} ELSE {}) :
               /\ playing_' = e.playing /\ current_beat_' = e.beat /\ idx_' = e.idx
               /\ voices_' = e.st.voices
         /\ pending_on_' = n1.on /\ pending_off_' = n1.off
         /\ aud' = [aud EXCEPT !.pc = "idle", !.read_freed = @ \/ stale]
  /\ UNCHANGED <<heap, pending_, current_, graphVars, bpm_, pending_loop_, active_loop_,
                 cmd_queue_, obsVars, ctl>>

SchedInit ==
  /\ DispInit /\ GraphInstalled /\ TransInit /\ NodeInit /\ ObsInit
  /\ ctl = SchedThread /\ aud = SchedThread

SchedNext ==
  \/ \E batch \in SchedBatches : SetScheduleBegin(batch)
  \/ PlayBegin
  \/ CtlCheckPending
  \/ CtlReturn
  \/ AudBegin
  \/ AudCheckPending
  \/ \E dead \in SUBSET Keys : AudAfterCheck(dead)
  \/ AudDispatch
  \/ \E dead \in SUBSET Keys : AudFinish(dead)

SpecSched == SchedInit /\ [][SchedNext]_vars

\* ------------------------------------------------- set_schedule, one call
\* One set_schedule call on an engine whose audio stream is not running (the
\* offline use: set_schedule, then blocks), with or without a schedule
\* installed before.  The argument is the JSON text: well-formed with an
\* events array, or text json::parse throws on.
ParseBeats == {-1, 0, 1}
ParseTypes == {"note_on", "note_off", "program", "sysex"}

ParseEvents == [beat : ParseBeats, type : ParseTypes, node_id : {"synth1"},
                channel : {0}, pitch : Pitches, velocity : {100}]

ParseBatches == SeqsUpTo(ParseEvents, MaxEvents)

ScheduleTexts == {[wellformed |-> TRUE, events |-> b] : b \in ParseBatches}
                   \cup {[wellformed |-> FALSE, events |-> <<>>]}

\* Schedule::from_json on the JSON text: the parse error, else the event loop
schedule_from_text(text) ==
  IF ~text.wellformed THEN [ok |-> FALSE, events_ |-> <<>>, total_length_ |-> 0]
  ELSE from_json(text.events)

\* AudioEngine::set_schedule(text), the whole call
SetSchedule ==
  /\ ctl.pc = "call"
  /\ IF ~schedule_from_text(ctl.arg).ok
     THEN /\ ctl' = [ctl EXCEPT !.pc = "returned", !.err = TRUE]
          /\ UNCHANGED dispVars
     ELSE /\ FreeSlots # {}
          /\ LET s == CHOOSE x \in FreeSlots : \A y \in FreeSlots : x <= y
                 d == check_pending(
                        [heap    |-> [heap EXCEPT ![s] = NewSchedule(ctl.arg.events)],
                         pending |-> s, current |-> current_, idx |-> idx_])
             IN  SetDispatcherMembers(d)
          /\ ctl' = [ctl EXCEPT !.pc = "returned", !.err = FALSE]
  /\ UNCHANGED <<graphVars, transVars, nodeVars, obsVars, aud>>

\* the blocks run once the call has returned
BlockAfterSetSchedule(end_beat) == ctl.pc = "returned" /\ DispatchBlock(end_beat)

\* the engine with or without an earlier schedule, about to be handed a text
SetScheduleInit ==
  /\ \/ DispInit
     \/ \E b0 \in TransportBatches :
          /\ heap = [s \in 1..MaxSched |-> IF s = 1 THEN NewSchedule(b0) ELSE NoSchedule]
          /\ pending_ = NULL /\ current_ = 1 /\ idx_ = reindex(heap[1].events_, 0)
  /\ GraphInstalled /\ TransInit /\ NodeInit /\ ObsInit
  /\ \E text \in ScheduleTexts : ctl = [pc |-> "call", arg |-> text, err |-> FALSE]
  /\ aud = Idle

SetScheduleNext ==
  \/ SetSchedule
  \/ \E end_beat \in blk.end..(MaxBeat + 1) : BlockAfterSetSchedule(end_beat)

SpecSetSchedule == SetScheduleInit /\ [][SetScheduleNext]_vars

\* ---------------------------------------------- graph build and processing
\* Graph::from_json, Graph::activate and Graph::process on graph descriptions
\* drawn from a bounded set.  A buffer holds one sample: 0 is silence, 1 is
\* signal.
MaxNodes  == 3      \* most nodes a graph description declares
MaxConns  == 2      \* most connections a graph description lists
MaxBlocks == 2      \* blocks processed after activation

BuildIds == {"osc", "mix1", "mix2"}

BuildType(id) == IF id = "osc" THEN "sine" ELSE "mixer"

\* SineNode::declare_ports, MixerNode::declare_ports (one input channel)
declare_ports(type) ==
  IF type = "sine"
  THEN << [name |-> "audio_out_L", is_output |-> TRUE],
          [name |-> "audio_out_R", is_output |-> TRUE] >>
  ELSE << [name |-> "audio_in_L_0", is_output |-> FALSE],
          [name |-> "audio_in_R_0", is_output |-> FALSE],
          [name |-> "audio_out_L",  is_output |-> TRUE],
          [name |-> "audio_out_R",  is_output |-> TRUE] >>

PortsOf(id) == declare_ports(BuildType(id))

\* the ports of one direction, in declaration order
RECURSIVE PortsWhere(_, _)
PortsWhere(ports, out) ==
  IF ports = <<>> THEN <<>>
  ELSE IF ports[1].is_output = out
       THEN <<ports[1].name>> \o PortsWhere(Tail(ports), out)
       ELSE PortsWhere(Tail(ports), out)

InputPorts(id)  == PortsWhere(PortsOf(id), FALSE)
OutputPorts(id) == PortsWhere(PortsOf(id), TRUE)

\* position of a name in a sequence of names, 0 when absent
IndexOf(s, x) == IF x \in Range(s) THEN CHOOSE i \in 1..Len(s) : s[i] = x ELSE 0

\* node lists: distinct ids in any declaration order
BuildNodeSeqs ==
  {n \in SeqsUpTo(BuildIds, MaxNodes) :
     Len(n) >= 1 /\ \A i, j \in 1..Len(n) : i # j => n[i] # n[j]}

BuildConns(ids) ==
  [from_node : ids, from_port : {"audio_out_L"},
   to_node   : ids, to_port   : {"audio_in_L_0", "audio_in_R_0"}]

\* the connection lists of k connections among the declared nodes
BuildConnSeqs(nodes, k) == [1..k -> BuildConns(Range(nodes))]

\* a Graph object
NoGraph == [nodes_ |-> <<>>, connections_ |-> <<>>, eval_order_ |-> <<>>,
            activated_ |-> FALSE,
            input_buf_indices |-> <<>>, output_buf_indices |-> <<>>,
            pool_ |-> <<>>]

\* Graph::from_json on text that parses: nodes and connections are stored as
\* given; no connection is examined.
graph_from_json(desc) ==
  [ok |-> TRUE,
   g  |-> [NoGraph EXCEPT !.nodes_ = desc.nodes, !.connections_ = desc.connections]]

\* Graph::topo_sort -----------------------------------------------------------
\* in_degree after the connection loop (self-loops skipped, duplicates
\* counted); in_degree[c.to_node]++ makes an entry for a to_node that is no
\* declared node
in_degree(nodes, conns) ==
  [id \in Range(nodes) \cup {conns[k].to_node : k \in {i \in 1..Len(conns) :
                                   conns[i].from_node # conns[i].to_node}} |->
     Cardinality({k \in 1..Len(conns) :
                    /\ conns[k].from_node # conns[k].to_node
                    /\ conns[k].to_node = id})]

\* adj[n]: the targets of n's connections, in connection order
RECURSIVE adj(_, _)
adj(conns, n) ==
  IF conns = <<>> THEN <<>>
  ELSE IF conns[1].from_node = n /\ conns[1].from_node # conns[1].to_node
       THEN <<conns[1].to_node>> \o adj(Tail(conns), n)
       ELSE adj(Tail(conns), n)

\* for (auto& m : adj[n]) if (--in_degree[m] == 0) queue.push_back(m);
RECURSIVE Relax(_, _, _)
Relax(targets, deg, queue) ==
  IF targets = <<>> THEN [deg |-> deg, queue |-> queue]
  ELSE LET m    == targets[1]
           deg1 == [deg EXCEPT ![m] = @ - 1]
       IN  Relax(Tail(targets), deg1,
                 IF deg1[m] = 0 THEN Append(queue, m) ELSE queue)

\* while (!queue.empty()) { n = queue.back(); queue.pop_back(); ... }
RECURSIVE KahnLoop(_, _, _, _)
KahnLoop(conns, deg, queue, order) ==
  IF queue = <<>> THEN order
  ELSE LET n == queue[Len(queue)]
           r == Relax(adj(conns, n), deg, SubSeq(queue, 1, Len(queue) - 1))
       IN  KahnLoop(conns, r.deg, r.queue, Append(order, n))

\* the orders in which iterating the unordered_map in_degree can fill the
\* initial queue: every arrangement of the zero-in-degree nodes
InitialQueues(nodes, conns) ==
  LET zero == {id \in Range(nodes) : in_degree(nodes, conns)[id] = 0}
  IN  {q \in [1..Cardinality(zero) -> zero] :
         \A i, j \in DOMAIN q : i # j => q[i] # q[j]}

topo_sort_DeclarationOrder(nodes, conns, queue) ==
  [ok |-> TRUE, eval_order_ |-> nodes]

topo_sort(nodes, conns, queue) ==
  LET order == KahnLoop(conns, in_degree(nodes, conns), queue, <<>>)
  IN  [ok |-> Len(order) = Len(nodes), eval_order_ |-> order]

\* Graph::activate, the order kept after topo_sort returns
order_after_sort_KeepPartial(nodes, sorted) == sorted.eval_order_

order_after_sort(nodes, sorted) ==
  IF ~sorted.ok THEN nodes ELSE sorted.eval_order_

\* Graph::assign_buffers ------------------------------------------------------
\* buffer indices handed to output ports: one per output port, node after
\* node, counting up from `first`
RECURSIVE CountOutputs(_)
CountOutputs(nodes) ==
  IF nodes = <<>> THEN 0
  ELSE Len(OutputPorts(nodes[1])) + CountOutputs(Tail(nodes))

OutputIndicesFrom(nodes, first) ==
  [id \in Range(nodes) |->
     LET before == SubSeq(nodes, 1, IndexOf(nodes, id) - 1)
     IN  [j \in 1..Len(OutputPorts(id)) |-> first + CountOutputs(before) + j - 1]]

output_indices_FromZero(nodes) == OutputIndicesFrom(nodes, 0)

\* int buf_count = 1; ... for (auto& idx : entry.output_buf_indices) idx = buf_count++;
output_indices(nodes) == OutputIndicesFrom(nodes, 1)

\* mutant: an unknown port name of a known node finds the node's first output
port_buf_FirstOutput(nodes, outs, node, port) ==
  IF node \in Range(nodes) /\ OutputPorts(node) # <<>>
  THEN outs[node][IF port \in Range(OutputPorts(node))
                  THEN IndexOf(OutputPorts(node), port) ELSE 1]
  ELSE -1

\* port_buf.find("node/port"): the buffer of an output port, -1 when not found
port_buf(nodes, outs, node, port) ==
  IF node \in Range(nodes) /\ port \in Range(OutputPorts(node))
  THEN outs[node][IndexOf(OutputPorts(node), port)]
  ELSE -1

\* the connection loop: each connection overwrites the index of its input port
RECURSIVE WireInputs(_, _, _, _)
WireInputs(nodes, outs, ins, conns) ==
  IF conns = <<>> THEN ins
  ELSE LET c       == conns[1]
           src_buf == port_buf(nodes, outs, c.from_node, c.from_port)
           in_i    == IF c.to_node \in Range(nodes)
                      THEN IndexOf(InputPorts(c.to_node), c.to_port) ELSE 0
       IN  WireInputs(nodes, outs,
                      IF src_buf = -1 \/ in_i = 0 THEN ins
                      ELSE [ins EXCEPT ![c.to_node][in_i] = src_buf],
                      Tail(conns))

assign_buffers(g) ==
  LET outs == output_indices(g.nodes_)
      ins0 == [id \in Range(g.nodes_) |-> [j \in 1..Len(InputPorts(id)) |-> 0]]
      n    == 1 + CountOutputs(g.nodes_)
  IN  [g EXCEPT !.output_buf_indices = outs,
                !.input_buf_indices  = WireInputs(g.nodes_, outs, ins0, g.connections_),
                !.pool_ = [b \in 0..(n - 1) |-> 0]]

activate(g, queue) ==
  LET sorted == topo_sort(g.nodes_, g.connections_, queue)
      g1     == [g EXCEPT !.eval_order_ = order_after_sort(g.nodes_, sorted)]
  IN  [ret |-> TRUE, g |-> [assign_buffers(g1) EXCEPT !.activated_ = TRUE]]

\* Graph::process -------------------------------------------------------------
\* SineNode::process writes its two outputs (signal while a voice sounds);
\* MixerNode::process clears its outputs, then adds its inputs into them.
node_process(g, pool, id, sounding) ==
  LET outs == g.output_buf_indices[id]
      ins  == g.input_buf_indices[id]
  IN  IF BuildType(id) = "sine"
      THEN [pool EXCEPT ![outs[1]] = sounding, ![outs[2]] = sounding]
      ELSE LET p0 == [pool EXCEPT ![outs[1]] = 0, ![outs[2]] = 0]
               p1 == [p0 EXCEPT ![outs[1]] = p0[ins[1]]]
           IN  [p1 EXCEPT ![outs[2]] = p1[ins[2]]]

\* what one node's turn looked like: the null buffer as its process began and
\* the buffers bound to its ports
NodeRun(g, pool, id) ==
  [node |-> id, null_buffer |-> pool[0],
   inputs  |-> g.input_buf_indices[id],
   outputs |-> g.output_buf_indices[id],
   read    |-> [j \in 1..Len(g.input_buf_indices[id]) |-> pool[g.input_buf_indices[id][j]]]]

RECURSIVE ProcessOrder(_, _, _, _, _)
ProcessOrder(g, order, pool, runs, sounding) ==
  IF order = <<>> THEN [pool |-> pool, runs |-> runs]
  ELSE IF order[1] \notin Range(g.nodes_)
       THEN ProcessOrder(g, Tail(order), pool, runs, sounding)
       ELSE ProcessOrder(g, Tail(order),
                         node_process(g, pool, order[1], sounding),
                         Append(runs, NodeRun(g, pool, order[1])), sounding)

graph_process(g, sounding) ==
  IF ~g.activated_ THEN [pool |-> g.pool_, runs |-> <<>>]
  ELSE ProcessOrder(g, g.eval_order_, [g.pool_ EXCEPT ![0] = 0], <<>>, sounding)

\* the actions: build, activate, then blocks ---------------------------------
BuildFromJson ==
  /\ ctl.pc = "from_json"
  /\ \E r \in {graph_from_json(ctl.desc)} :
       /\ graphs' = r.g
       /\ ctl' = [ctl EXCEPT !.pc = "activate", !.built = r.ok]
  /\ UNCHANGED <<active_graph_, owned_graph_, retiring_graph_>>
  /\ UNCHANGED <<dispVars, transVars, nodeVars, obsVars, aud>>

BuildActivate ==
  /\ ctl.pc = "activate"
  /\ \E queue \in InitialQueues(graphs.nodes_, graphs.connections_) :
       \E r \in {activate(graphs, queue)} :
         /\ graphs' = r.g
         /\ ctl' = [ctl EXCEPT !.pc = "run", !.activated = r.ret]
  /\ UNCHANGED <<active_graph_, owned_graph_, retiring_graph_>>
  /\ UNCHANGED <<dispVars, transVars, nodeVars, obsVars, aud>>

BuildProcess(sounding) ==
  /\ ctl.pc = "run"
  /\ ctl.blocks < MaxBlocks
  /\ \E r \in {graph_process(graphs, sounding)} :
       /\ graphs' = [graphs EXCEPT !.pool_ = r.pool]
       /\ log' = r.runs
  /\ ctl' = [ctl EXCEPT !.blocks = @ + 1]
  /\ UNCHANGED <<active_graph_, owned_graph_, retiring_graph_>>
  /\ UNCHANGED <<dispVars, transVars, nodeVars, blk, held, aud>>

BuildInit ==
  /\ DispInit /\ TransInit /\ NodeInit /\ ObsInit
  /\ graphs = NoGraph
  /\ active_graph_ = NULL /\ owned_graph_ = NULL /\ retiring_graph_ = NULL
  /\ \E n \in BuildNodeSeqs, k \in 0..MaxConns :
       \E c \in BuildConnSeqs(n, k) :
         ctl = [pc |-> "from_json", desc |-> [nodes |-> n, connections |-> c],
                built |-> FALSE, activated |-> FALSE, blocks |-> 0]
  /\ aud = Idle

BuildNext ==
  \/ BuildFromJson
  \/ BuildActivate
  \/ \E sounding \in {0, 1} : BuildProcess(sounding)

SpecGraphBuild == BuildInit /\ [][BuildNext]_vars

\* ------------------------------------------- control ports through the graph
\* A control source feeding (or not) the room_size input of a reverb, both
\* plugins behind PluginAdapterNode.  Control values are floats in the
\* source; the model uses 0 for 0.0 and small integers for other values.
MaxCalls == 2       \* set_param / push_control calls made after activation

ControlValues == {0, 1, 2}

ControlNodes == <<"ctl_src", "reverb">>

\* PluginDescriptor::ports, control ports only: ControlSourcePlugin has
\* control_in (default 0.0) and control_out; ReverbPlugin's room_size has a
\* non-zero default (0.7).
ControlPorts(node) ==
  IF node = "ctl_src"
  THEN << [id |-> "control_in",  is_output |-> FALSE, default_value |-> 0],
          [id |-> "control_out", is_output |-> TRUE,  default_value |-> 0] >>
  ELSE << [id |-> "room_size",   is_output |-> FALSE, default_value |-> 1] >>

\* the first non-output control port of a node
FirstControlInput(node) ==
  LET ports == ControlPorts(node)
  IN  ports[CHOOSE i \in 1..Len(ports) :
              /\ ~ports[i].is_output
              /\ \A j \in 1..(i - 1) : ports[j].is_output]

ControlLink == [from_node |-> "ctl_src", from_port |-> "control_out",
                to_node   |-> "reverb",  to_port   |-> "room_size"]

\* graph descriptions: the link present or absent, room_size given in the
\* node's params or not
ControlDescs ==
  {[nodes |-> ControlNodes, connections |-> c, params |-> p] :
     c \in {<<>>, <<ControlLink>>},
     p \in {<<>>} \cup {<<v>> : v \in ControlValues}}

\* PluginAdapterNode::build_port_mapping, Control case: the mapping of the
\* node's control input.  is_connected keeps its initialiser: nothing in the
\* sources assigns it (set_control_connected is declared, never defined).
build_port_mapping(node) ==
  [pending_value |-> FirstControlInput(node).default_value,
   has_pending   |-> FALSE,
   is_connected  |-> FALSE]

\* PluginAdapterNode::set_param on the input port, and push_control
set_param(m, value) == [m EXCEPT !.pending_value = value, !.has_pending = TRUE]

push_control(m, value) == [m EXCEPT !.pending_value = value, !.has_pending = TRUE]

\* Graph::activate: eval order, then the description's params through
\* set_param
RECURSIVE ApplyParams(_, _)
ApplyParams(m, params) ==
  IF params = <<>> THEN m
  ELSE ApplyParams(set_param(m, params[1]), Tail(params))

control_activate(desc, queue) ==
  LET sorted == topo_sort(desc.nodes, desc.connections, queue)
  IN  [nodes_        |-> desc.nodes,
       connections_  |-> desc.connections,
       eval_order_   |-> order_after_sort(desc.nodes, sorted),
       activated_    |-> TRUE,
       control_map_  |-> [n \in Range(desc.nodes) |->
                            IF n = "reverb"
                            THEN ApplyParams(build_port_mapping(n), desc.params)
                            ELSE build_port_mapping(n)]]

\* Graph::process builds a fresh PortBuffer for every port of the node about
\* to run; its control member keeps the initialiser 0.0f.
FreshPortBuffer == [control |-> 0]

\* PluginAdapterNode::process, Control input: cb.value = inputs[in_i].control,
\* replaced by the pending value when has_pending
control_input_value(m, input) ==
  IF m.has_pending THEN m.pending_value ELSE input.control

\* one node's turn in a block: the value its plugin sees on the control
\* input, and what the write-back puts into the node's own outputs[] vector
\* (ControlSourcePlugin::process copies control_in to control_out)
AdapterRun(g, node) ==
  LET input == FreshPortBuffer
      value == control_input_value(g.control_map_[node], input)
  IN  [node       |-> node,
       input_slot |-> input.control,
       presented  |-> value,
       has_output |-> node = "ctl_src",
       written    |-> IF node = "ctl_src" THEN value ELSE 0]

control_process(g) == [i \in 1..Len(g.eval_order_) |-> AdapterRun(g, g.eval_order_[i])]

ControlActivate ==
  /\ ctl.pc = "activate"
  /\ \E queue \in InitialQueues(ctl.desc.nodes, ctl.desc.connections) :
       graphs' = control_activate(ctl.desc, queue)
  /\ ctl' = [ctl EXCEPT !.pc = "run"]
  /\ UNCHANGED <<active_graph_, owned_graph_, retiring_graph_>>
  /\ UNCHANGED <<dispVars, transVars, nodeVars, obsVars, aud>>

ControlSetParam(node, value) ==
  /\ ctl.pc = "run"
  /\ Len(ctl.calls) < MaxCalls
  /\ graphs' = [graphs EXCEPT !.control_map_[node] = set_param(@, value)]
  /\ ctl' = [ctl EXCEPT !.calls = Append(@, [op |-> "set_param", node |-> node, value |-> value])]
  /\ UNCHANGED <<active_graph_, owned_graph_, retiring_graph_>>
  /\ UNCHANGED <<dispVars, transVars, nodeVars, obsVars, aud>>

ControlPushControl(node, value) ==
  /\ ctl.pc = "run"
  /\ Len(ctl.calls) < MaxCalls
  /\ graphs' = [graphs EXCEPT !.control_map_[node] = push_control(@, value)]
  /\ ctl' = [ctl EXCEPT !.calls = Append(@, [op |-> "push_control", node |-> node, value |-> value])]
  /\ UNCHANGED <<active_graph_, owned_graph_, retiring_graph_>>
  /\ UNCHANGED <<dispVars, transVars, nodeVars, obsVars, aud>>

ControlBlock ==
  /\ ctl.pc = "run"
  /\ ctl.blocks < MaxBlocks
  /\ log' = control_process(graphs)
  /\ ctl' = [ctl EXCEPT !.blocks = @ + 1]
  /\ UNCHANGED <<graphVars, dispVars, transVars, nodeVars, blk, held, aud>>

ControlInit ==
  /\ DispInit /\ TransInit /\ NodeInit /\ ObsInit
  /\ graphs = NoGraph
  /\ active_graph_ = NULL /\ owned_graph_ = NULL /\ retiring_graph_ = NULL
  /\ \E desc \in ControlDescs :
       ctl = [pc |-> "activate", desc |-> desc, calls |-> <<>>, blocks |-> 0]
  /\ aud = Idle

ControlNext ==
  \/ ControlActivate
  \/ \E node \in Range(ControlNodes), value \in ControlValues : ControlSetParam(node, value)
  \/ \E node \in Range(ControlNodes), value \in ControlValues : ControlPushControl(node, value)
  \/ ControlBlock

SpecControl == ControlInit /\ [][ControlNext]_vars

\* ------------------------------------------- event outputs through the graph
\* Graph::process routing what adapter-wrapped plugins append to their event
\* output port.  "arp" and "gate" are plugins with an event input and the
\* event output "events_out"; "synth1" is a SineNode.  What a plugin appends
\* in a block is its own business: any list of EmitLists.
MaxEmit == 1        \* most events a plugin appends to its output in a block

EventNodes == <<"arp", "gate", "synth1">>

EventAdapters == {"arp", "gate"}

\* MidiEvent: status 0x90 with data2 > 0, and status 0x80
MidiEvents == { [status |-> "0x90", data1 |-> 60, data2 |-> 100],
                [status |-> "0x80", data1 |-> 60, data2 |-> 0] }

EmitLists == SeqsUpTo(MidiEvents, MaxEmit)

\* event connections between two different nodes
EventLinks ==
  { l \in [from_node : EventAdapters, from_port : {"events_out"},
           to_node   : {"gate", "synth1", "arp"}, to_port : {"events_in"}] :
      l.from_node # l.to_node }

\* the graph after from_json and activate
event_graph(desc, queue) ==
  [nodes_        |-> desc.nodes,
   connections_  |-> desc.connections,
   eval_order_   |-> order_after_sort(desc.nodes,
                       topo_sort(desc.nodes, desc.connections, queue)),
   activated_    |-> TRUE,
   event_output_storage_ |-> [n \in EventAdapters |-> <<>>],
   event_input_accum_    |-> [n \in EventAdapters |-> <<>>],
   voices_       |-> {}]

\* Graph::process, status-byte decoding: the hook an event is delivered by
HookForStatus(ev) ==
  IF ev.status = "0x90" /\ ev.data2 > 0 THEN "note_on"
  ELSE IF ev.status = "0x80" \/ (ev.status = "0x90" /\ ev.data2 = 0) THEN "note_off"
  ELSE "none"

\* dest->note_on / dest->note_off: PluginAdapterNode accumulates the event
\* for its plugin's event input, SineNode starts or releases a voice
DeliverEvent(g, dest, ev) ==
  IF HookForStatus(ev) = "none" THEN g
  ELSE IF dest \in EventAdapters
  THEN [g EXCEPT !.event_input_accum_[dest] = Append(@, ev)]
  ELSE IF HookForStatus(ev) = "note_on"
       THEN [g EXCEPT !.voices_ = @ \cup {ev.data1}]
       ELSE [g EXCEPT !.voices_ = @ \ {ev.data1}]

Delivery(from, dest, ev) ==
  [kind |-> "deliver", node |-> dest, from |-> from, hook |-> HookForStatus(ev),
   events |-> <<ev>>]

\* for (auto& ev : events) { ... dest->note_on / note_off ... }
RECURSIVE DeliverAll(_, _, _, _)
DeliverAll(st, from, dest, events) ==
  IF events = <<>> THEN st
  ELSE DeliverAll([g    |-> DeliverEvent(st.g, dest, events[1]),
                   runs |-> IF HookForStatus(events[1]) = "none" THEN st.runs
                            ELSE Append(st.runs, Delivery(from, dest, events[1]))],
                  from, dest, Tail(events))

\* for (auto& c : connections_) { if (c.from_node != node_id || c.from_port
\* != port_id) continue; ... }
RECURSIVE RouteEvents(_, _, _, _)
RouteEvents(st, node, events, conns) ==
  IF conns = <<>> THEN st
  ELSE LET c == conns[1]
       IN  IF c.from_node # node \/ c.from_port # "events_out"
              \/ c.to_node \notin Range(st.g.nodes_)
           THEN RouteEvents(st, node, events, Tail(conns))
           ELSE RouteEvents(DeliverAll(st, node, c.to_node, events),
                            node, events, Tail(conns))

\* PluginAdapterNode::process, event side: the output storage is cleared
\* before the plugin runs
clear_output_KeepOld(storage) == storage

clear_output(storage) == <<>>

\* the plugin reads event_input_accum_ and appends `emit`; the accumulator is
\* cleared as process returns
adapter_events_process(g, node, emit) ==
  [g EXCEPT !.event_output_storage_[node] = clear_output(@) \o emit,
            !.event_input_accum_[node] = <<>>]

EventRun(g, node, emit) ==
  [kind |-> "process", node |-> node, from |-> node, hook |-> "process",
   events |-> IF node \in EventAdapters THEN g.event_input_accum_[node] ELSE <<>>]

\* one node's turn: process, then the routing of its event outputs
EventNodeTurn(st, node, emits) ==
  IF node \notin EventAdapters
  THEN [g |-> st.g, runs |-> Append(st.runs, EventRun(st.g, node, <<>>))]
  ELSE LET g1 == adapter_events_process(st.g, node, emits[node])
           s1 == [g |-> g1, runs |-> Append(st.runs, EventRun(st.g, node, emits[node]))]
       IN  IF g1.event_output_storage_[node] = <<>> THEN s1
           ELSE RouteEvents(s1, node, g1.event_output_storage_[node], g1.connections_)

RECURSIVE EventProcessOrder(_, _, _)
EventProcessOrder(st, order, emits) ==
  IF order = <<>> THEN st
  ELSE EventProcessOrder(EventNodeTurn(st, order[1], emits), Tail(order), emits)

events_process(g, emits) ==
  EventProcessOrder([g |-> g, runs |-> <<>>], g.eval_order_, emits)

EventsActivate ==
  /\ ctl.pc = "activate"
  /\ \E queue \in InitialQueues(ctl.desc.nodes, ctl.desc.connections) :
       graphs' = event_graph(ctl.desc, queue)
  /\ ctl' = [ctl EXCEPT !.pc = "run"]
  /\ UNCHANGED <<active_graph_, owned_graph_, retiring_graph_>>
  /\ UNCHANGED <<dispVars, transVars, nodeVars, obsVars, aud>>

EventsBlock(emits) ==
  /\ ctl.pc = "run"
  /\ ctl.blocks < MaxBlocks
  /\ \E r \in {events_process(graphs, emits)} :
       /\ graphs' = r.g
       /\ log' = r.runs
  /\ ctl' = [ctl EXCEPT !.blocks = @ + 1, !.emitted = emits]
  /\ UNCHANGED <<active_graph_, owned_graph_, retiring_graph_>>
  /\ UNCHANGED <<dispVars, transVars, nodeVars, blk, held, aud>>

EventsInit ==
  /\ DispInit /\ TransInit /\ NodeInit /\ ObsInit
  /\ graphs = NoGraph
  /\ active_graph_ = NULL /\ owned_graph_ = NULL /\ retiring_graph_ = NULL
  /\ \E k \in 0..MaxConns : \E c \in [1..k -> EventLinks] :
       ctl = [pc |-> "activate", desc |-> [nodes |-> EventNodes, connections |-> c],
              blocks |-> 0, emitted |-> [n \in EventAdapters |-> <<>>]]
  /\ aud = Idle

EventsNext ==
  \/ EventsActivate
  \/ \E emits \in [EventAdapters -> EmitLists] : EventsBlock(emits)

SpecEvents == EventsInit /\ [][EventsNext]_vars

\* ---------------------------------------------------- set_param by node id
\* AudioEngine::set_param -> Graph::set_param -> Node::set_param on a graph
\* holding a two-channel MixerNode "mixer" and the reverb plugin "reverb".
\* Parameter names are strings in the source; here they are character
\* sequences so that substr and std::stoi can be computed.
ParamNames ==
  { <<"m","a","s","t","e","r","_","g","a","i","n">>,
    <<"g","a","i","n","_","0">>,
    <<"g","a","i","n","_","1">>,
    <<"g","a","i","n","_","7">>,
    <<"g","a","i","n","_","x">>,
    <<"g","a","i","n","_">>,
    <<"r","o","o","m","_","s","i","z","e">>,
    <<"w","e","t">> }

ParamNodeIds == {"mixer", "reverb", "ghost"}

ParamValues == {-1, 2}

MixerInputCount == 2

Digits == <<"0", "1", "2", "3", "4", "5", "6", "7", "8", "9">>

IsDigit(c) == \E i \in 1..10 : Digits[i] = c

DigitValue(c) == (CHOOSE i \in 1..10 : Digits[i] = c) - 1

\* std::string::substr(pos, n), pos counted from 0
substr(s, pos, n) ==
  SubSeq(s, pos + 1, IF pos + n > Len(s) THEN Len(s) ELSE pos + n)

\* std::stoi: the leading decimal digits; std::invalid_argument when there is
\* none
RECURSIVE StoiDigits(_, _)
StoiDigits(s, acc) ==
  IF s = <<>> \/ ~IsDigit(s[1]) THEN acc
  ELSE StoiDigits(Tail(s), 10 * acc + DigitValue(s[1]))

stoi(s) ==
  IF s = <<>> \/ ~IsDigit(s[1]) THEN [threw |-> TRUE, value |-> 0]
  ELSE [threw |-> FALSE, value |-> StoiDigits(s, 0)]

MaxOf(a, b) == IF a > b THEN a ELSE b

\* MixerNode after construction: every gain 1.0
NewMixer == [master_gain_ |-> 1, channel_gain_ |-> [n \in 0..(MixerInputCount - 1) |-> 1]]

\* MixerNode::set_param
mixer_set_param(mx, name, value) ==
  IF name = <<"m","a","s","t","e","r","_","g","a","i","n">>
  THEN [threw |-> FALSE, node |-> [mx EXCEPT !.master_gain_ = MaxOf(0, value)]]
  ELSE IF substr(name, 0, 5) = <<"g","a","i","n","_">>
  THEN LET n == stoi(SubSeq(name, 6, Len(name)))
       IN  IF n.threw THEN [threw |-> TRUE, node |-> mx]
           ELSE IF n.value >= 0 /\ n.value < MixerInputCount
           THEN [threw |-> FALSE,
                 node  |-> [mx EXCEPT !.channel_gain_[n.value] = MaxOf(0, value)]]
           ELSE [threw |-> FALSE, node |-> mx]
  ELSE [threw |-> FALSE, node |-> mx]

\* PluginAdapterNode::set_param: the input control port of that name, else a
\* log line
adapter_set_param(m, name, value) ==
  IF name = <<"r","o","o","m","_","s","i","z","e">>
  THEN [threw |-> FALSE, node |-> set_param(m, value)]
  ELSE [threw |-> FALSE, node |-> m]

\* Graph::set_param: find_node, then the node's set_param
graph_set_param(g, nid, name, value) ==
  IF nid = "mixer"
  THEN LET r == mixer_set_param(g.mixer, name, value)
       IN  [threw |-> r.threw, g |-> [g EXCEPT !.mixer = r.node]]
  ELSE IF nid = "reverb"
  THEN LET r == adapter_set_param(g.reverb, name, value)
       IN  [threw |-> r.threw, g |-> [g EXCEPT !.reverb = r.node]]
  ELSE [threw |-> FALSE, g |-> g]

\* AudioEngine::set_param; an exception leaves through the caller
EngineSetParam(nid, name, value) ==
  /\ ctl.calls < MaxCalls
  /\ \E r \in {graph_set_param(graphs, nid, name, value)} :
       /\ graphs' = r.g
       /\ ctl' = [calls |-> ctl.calls + 1,
                  last  |-> [nid |-> nid, name |-> name, value |-> value],
                  threw |-> r.threw]
  /\ UNCHANGED <<active_graph_, owned_graph_, retiring_graph_>>
  /\ UNCHANGED <<dispVars, transVars, nodeVars, obsVars, aud>>

ParamInit ==
  /\ DispInit /\ TransInit /\ NodeInit /\ ObsInit
  /\ graphs = [mixer |-> NewMixer, reverb |-> build_port_mapping("reverb")]
  /\ active_graph_ = 1 /\ owned_graph_ = 1 /\ retiring_graph_ = NULL
  /\ ctl = [calls |-> 0, last |-> [nid |-> "none", name |-> <<>>, value |-> 0],
            threw |-> FALSE]
  /\ aud = Idle

ParamNext ==
  \E nid \in ParamNodeIds, name \in ParamNames, value \in ParamValues :
    EngineSetParam(nid, name, value)

SpecParam == ParamInit /\ [][ParamNext]_vars

\* --------------------------------------------- stopped-block specification
\* An engine with a schedule set, with or without a graph installed, driven
\* by play, stop, seek and audio blocks.
StoppedInit ==
  /\ \E batch \in TransportBatches :
       heap = [s \in 1..MaxSched |-> IF s = 1 THEN NewSchedule(batch) ELSE NoSchedule]
  /\ pending_ = NULL /\ current_ = 1
  /\ idx_ = reindex(heap[1].events_, 0)
  /\ (GraphInstalled \/ GraphInit)
  /\ TransInit /\ NodeInit /\ ObsInit /\ ThreadInit

StoppedNext ==
  \/ Play
  \/ Stop
  \/ \E b \in SeekInputs : Seek(b)
  \/ \E dead \in SUBSET Keys : ProcessBlock(dead)

SpecStopped == StoppedInit /\ [][StoppedNext]_vars

\* ------------------------------------------------ offline render (SpecRender)
\* AudioEngine::render_offline on the main thread, no stream open.  A frame
\* advances the beat by bpm_ ticks, so length * 60 / bpm * sample_rate is
\* length / bpm_ frames; tail_seconds * sample_rate is given in frames.
MaxRenders == 2

TailFrames     == {0, 1}
DurationInputs == {0, MaxBeat + 1}
BlockSizes     == {1, 2}

RenderBatches == { << On(0, "synth1"), Off(1, "synth1") >>,
                   << On(1, "synth1") >>,
                   << On(0, "track1"), Off(2, "track1") >> }

Min(a, b) == IF a < b THEN a ELSE b

\* int n = std::min(block, total_frames - frames_done)
BlockFrames(block, total_frames, frames_done) == Min(block, total_frames - frames_done)

\* one iteration of the while loop of render_offline:
\* w = [idx, voices, on, off, beat_pos, frames_done, output].  A block lasts
\* longer than a release, so a voice found releasing is erased by the block.
RenderBlock(w, total_frames, block, bpm, cur, graph) ==
  LET n        == BlockFrames(block, total_frames, w.frames_done)
      end_beat == w.beat_pos + n * bpm
      r  == dispatch([voices |-> w.voices, log |-> <<>>], cur, w.idx,
                     w.beat_pos, end_beat, graph)
      n0 == [st |-> r.st, on |-> w.on, off |-> w.off]
      p  == GraphProcess(n0, Keys)
  IN  [idx |-> r.idx, voices |-> p.st.voices, on |-> p.on, off |-> p.off,
       beat_pos |-> end_beat, frames_done |-> w.frames_done + n,
       output |-> Append(w.output,
                         [frames   |-> n,
                          sounding |-> LET v == GraphProcess(n0, {}).st.voices
                                       IN  [s \in SineIds |-> DOMAIN v[s]],
                          log      |-> p.st.log])]

RECURSIVE RenderLoop(_, _, _, _, _, _)
RenderLoop(w, total_frames, block, bpm, cur, graph) ==
  IF w.frames_done < total_frames
  THEN RenderLoop(RenderBlock(w, total_frames, block, bpm, cur, graph),
                  total_frames, block, bpm, cur, graph)
  ELSE w

\* int total_frames = static_cast<int>(total_seconds * cfg_.sample_rate)
TotalFrames(length, bpm, tail) == (length + tail * bpm) \div bpm

\* AudioEngine::render_offline(tail_seconds, duration_beats) as declared in
\* audio_engine.h; the body reads tail_seconds only.  S = [graph, current,
\* idx, bpm, voices, on, off]; returned = FALSE is the empty vector of the
\* early returns.
render_offline(S, tail, duration_beats, block) ==
  LET length == arrangement_length(S.current)
      start  == [idx |-> S.idx, voices |-> S.voices, on |-> S.on, off |-> S.off,
                 beat_pos |-> 0, frames_done |-> 0, output |-> <<>>]
  IN  IF S.graph = NULL \/ length <= 0
      THEN [start EXCEPT !.beat_pos = 0] @@ [returned |-> FALSE]
      ELSE RenderLoop([start EXCEPT !.idx = seek(S.current, 0)],
                      TotalFrames(length, S.bpm, tail), block, S.bpm,
                      S.current, S.graph) @@ [returned |-> TRUE]

RECURSIVE SumFrames(_)
SumFrames(output) ==
  IF output = <<>> THEN 0 ELSE Head(output).frames + SumFrames(Tail(output))

RECURSIVE FlatLog(_)
FlatLog(output) ==
  IF output = <<>> THEN <<>> ELSE Head(output).log \o FlatLog(Tail(output))

\* one render_offline call with nothing else running
RenderOffline(tail, duration_beats) ==
  /\ Len(ctl.calls) < MaxRenders
  /\ \E r \in {render_offline([graph |-> active_graph_, current |-> current_,
                               idx |-> idx_, bpm |-> bpm_, voices |-> voices_,
                               on |-> pending_on_, off |-> pending_off_],
                              tail, duration_beats, ctl.block)} :
       /\ idx_' = r.idx /\ voices_' = r.voices
       /\ pending_on_' = r.on /\ pending_off_' = r.off
       /\ log' = FlatLog(r.output)
       /\ ctl' = [ctl EXCEPT !.calls =
                    Append(@, [tail |-> tail, duration_beats |-> duration_beats,
                               voices_before |-> voices_,
                               samples |-> 2 * SumFrames(r.output),
                               output |-> r.output])]
  /\ UNCHANGED <<heap, pending_, current_, graphVars, transVars, blk, held, aud>>

\* the engine after set_graph (or none) and set_schedule (or none)
RenderInit ==
  /\ \/ DispInit
     \/ /\ \E batch \in RenderBatches :
             heap = [s \in 1..MaxSched |-> IF s = 1 THEN NewSchedule(batch) ELSE NoSchedule]
        /\ pending_ = NULL /\ current_ = 1
        /\ idx_ = reindex(heap[1].events_, 0)
  /\ (GraphInstalled \/ GraphInit)
  /\ playing_ = FALSE /\ current_beat_ = 0 /\ bpm_ \in BpmInputs
  /\ pending_loop_ = NoLoop /\ active_loop_ = NoLoop /\ cmd_queue_ = <<>>
  /\ NodeInit /\ ObsInit /\ aud = Idle
  /\ \E b \in BlockSizes : ctl = [block |-> b, calls |-> <<>>]

RenderNext == \E tail \in TailFrames, d \in DurationInputs : RenderOffline(tail, d)

SpecRender == RenderInit /\ [][RenderNext]_vars

\* --------------------------------------- dispatcher calls (SpecPending)
\* A Dispatcher driven call by call, as test_graph.cpp and set_schedule drive
\* it: swap_schedule, check_pending and dispatch over contiguous blocks.
MaxChecks == 3

\* Dispatcher::swap_schedule(next): the old pending pointer is the return
\* value, which set_schedule drops
swap_schedule(d, next) == [d EXCEPT !.pending = next]

\* the bool Dispatcher::check_pending returns
check_pending_result(d) == d.pending # NULL

SwapSchedule(batch) ==
  /\ FreeSlots # {}
  /\ LET s == CHOOSE x \in FreeSlots : \A y \in FreeSlots : x <= y
     IN  SetDispatcherMembers(
           swap_schedule([heap |-> [heap EXCEPT ![s] = NewSchedule(batch)],
                          pending |-> pending_, current |-> current_, idx |-> idx_], s))
  /\ ctl' = [ctl EXCEPT !.since_swap = 0]
  /\ UNCHANGED <<graphVars, transVars, nodeVars, obsVars, aud>>

CheckPending ==
  /\ ctl.checks < MaxChecks
  /\ SetDispatcherMembers(check_pending(DispatcherMembers))
  /\ ctl' = [checks |-> ctl.checks + 1,
             ret |-> check_pending_result(DispatcherMembers),
             since_swap |-> Min(ctl.since_swap + 1, 2)]
  /\ UNCHANGED <<graphVars, transVars, nodeVars, obsVars, aud>>

PendingInit ==
  /\ DispInit /\ GraphInstalled /\ TransInit /\ NodeInit /\ ObsInit /\ aud = Idle
  /\ ctl = [checks |-> 0, ret |-> FALSE, since_swap |-> 0]

PendingNext ==
  \/ \E batch \in TransportBatches : SwapSchedule(batch)
  \/ CheckPending
  \/ \E end_beat \in blk.end..(MaxBeat + 1) : DispatchBlock(end_beat)

SpecPending == PendingInit /\ [][PendingNext]_vars

\* ------------------------------------------------ loop calls (SpecLoop)
\* The control thread makes either set_loop(a,b); disable_loop();
\* set_loop(a,b) or the single call set_loop(a,b), with play and audio blocks
\* running at any point between the calls and after them.
LoopCalls(mode) ==
  IF mode = "triple" THEN << "set_loop", "disable_loop", "set_loop" >>
  ELSE << "set_loop" >>

\* mutant: set_loop leaves a pending loop state that was not consumed yet
set_loop_KeepPending(old, start, end) ==
  IF old.set THEN old ELSE LoopState(start, end, TRUE)

\* AudioEngine::set_loop: the LoopState exchanged into pending_loop_ (old is
\* the pointer exchanged out and deleted)
set_loop(old, start, end) == LoopState(start, end, TRUE)

\* AudioEngine::disable_loop
disable_loop(old) == LoopState(0, 0, FALSE)

\* the next call of the sequence
LoopCall ==
  /\ ctl.done < Len(LoopCalls(ctl.mode))
  /\ pending_loop_' = IF LoopCalls(ctl.mode)[ctl.done + 1] = "set_loop"
                      THEN set_loop(pending_loop_, ctl.a, ctl.b)
                      ELSE disable_loop(pending_loop_)
  /\ ctl' = [ctl EXCEPT !.done = @ + 1]
  /\ UNCHANGED <<dispVars, graphVars, playing_, current_beat_, bpm_, active_loop_,
                 cmd_queue_, nodeVars, obsVars, aud>>

\* the engine with a graph and a schedule, with or without a loop taken up by
\* an earlier block
LoopInit ==
  /\ \E batch \in TransportBatches :
       heap = [s \in 1..MaxSched |-> IF s = 1 THEN NewSchedule(batch) ELSE NoSchedule]
  /\ pending_ = NULL /\ current_ = 1
  /\ idx_ = reindex(heap[1].events_, 0)
  /\ GraphInstalled /\ NodeInit /\ ObsInit /\ aud = Idle
  /\ playing_ = FALSE /\ current_beat_ = 0 /\ bpm_ = 1 /\ cmd_queue_ = <<>>
  /\ pending_loop_ = NoLoop
  /\ active_loop_ \in {NoLoop, LoopState(0, 1, TRUE), LoopState(0, 0, FALSE)}
  /\ \E l \in LoopInputs, m \in {"triple", "single"} :
       ctl = [mode |-> m, a |-> l[1], b |-> l[2], done |-> 0]

LoopNext ==
  \/ LoopCall
  \/ Play
  \/ \E dead \in SUBSET Keys : ProcessBlock(dead)

SpecLoop == LoopInit /\ [][LoopNext]_vars

\* ------------------------------------------ node lifecycle (SpecLifecycle)
\* set_graph, open, close and audio blocks, one call at a time, counting the
\* activate, deactivate and process calls every node of every Graph gets.
\* graphs[g] = [state, nodes], nodes[n] = [activate, deactivate, processed, late].
FreshNode == [activate |-> 0, deactivate |-> 0, processed |-> FALSE, late |-> FALSE]

NoGraphObject == [state |-> "unallocated", nodes |-> [n \in NodeIds |-> FreshNode]]

\* Graph::from_json: the nodes of the description, created
graph_built == [state |-> "live", nodes |-> [n \in NodeIds |-> FreshNode]]

\* Graph::activate: entry.node->activate(...) for every node
graph_activate(G) ==
  [G EXCEPT !.nodes = [n \in NodeIds |-> [G.nodes[n] EXCEPT !.activate = @ + 1]]]

\* Graph::deactivate: entry.node->deactivate() for every node
graph_deactivate(G) ==
  [G EXCEPT !.nodes = [n \in NodeIds |-> [G.nodes[n] EXCEPT !.deactivate = @ + 1]]]

\* Graph::~Graph: deactivate(), then the members go
graph_destroy(G) == [graph_deactivate(G) EXCEPT !.state = "freed"]

\* Graph::process: node->process for every node (late: after a deactivate)
graph_run(G) ==
  [G EXCEPT !.nodes = [n \in NodeIds |->
     [G.nodes[n] EXCEPT !.processed = TRUE, !.late = @ \/ G.nodes[n].deactivate > 0]]]

\* unique_ptr::reset on a graph pointer
ResetGraph(gs, g) == IF g = NULL THEN gs ELSE [gs EXCEPT ![g] = graph_destroy(gs[g])]

\* if (p) { p->deactivate(); p.reset(); } of close()
CloseGraph(gs, g) ==
  IF g = NULL THEN gs ELSE ResetGraph([gs EXCEPT ![g] = graph_deactivate(gs[g])], g)

LifeFreeGraphs == {g \in 1..MaxGraphs : graphs[g].state = "unallocated"}

\* AudioEngine::set_graph, the whole call
LifeSetGraph ==
  /\ LifeFreeGraphs # {}
  /\ LET g  == CHOOSE x \in LifeFreeGraphs : \A y \in LifeFreeGraphs : x <= y
         gs == ResetGraph([graphs EXCEPT ![g] = graph_activate(graph_built)],
                          retiring_graph_)
     IN  /\ graphs' = gs
         /\ retiring_graph_' = owned_graph_
         /\ owned_graph_' = g /\ active_graph_' = g
  /\ UNCHANGED <<dispVars, transVars, nodeVars, obsVars, threadVars>>

\* AudioEngine::open
LifeOpen ==
  /\ ~ctl.stream
  /\ ctl' = [ctl EXCEPT !.stream = TRUE]
  /\ UNCHANGED <<dispVars, graphVars, transVars, nodeVars, obsVars, aud>>

\* AudioEngine::close (the Stop command it posts is left in the queue)
LifeClose ==
  /\ cmd_queue_' = IF Len(cmd_queue_) < MaxQueue
                   THEN Append(cmd_queue_, Cmd("Stop", 0)) ELSE cmd_queue_
  /\ ctl' = [ctl EXCEPT !.stream = FALSE, !.closed = TRUE]
  /\ active_graph_' = NULL
  /\ graphs' = CloseGraph(CloseGraph(graphs, owned_graph_), retiring_graph_)
  /\ owned_graph_' = NULL /\ retiring_graph_' = NULL
  /\ UNCHANGED <<dispVars, playing_, current_beat_, bpm_, pending_loop_, active_loop_,
                 nodeVars, obsVars, aud>>

\* one audio callback of the open stream: the commands are drained and the
\* active graph, if any, is processed
LifeBlock ==
  /\ ctl.stream
  /\ cmd_queue_' = <<>>
  /\ graphs' = IF active_graph_ # NULL
               THEN [graphs EXCEPT ![active_graph_] = graph_run(@)] ELSE graphs
  /\ UNCHANGED <<dispVars, active_graph_, owned_graph_, retiring_graph_, playing_,
                 current_beat_, bpm_, pending_loop_, active_loop_, nodeVars, obsVars,
                 threadVars>>

LifeInit ==
  /\ DispInit /\ NodeInit /\ ObsInit /\ aud = Idle
  /\ playing_ = FALSE /\ current_beat_ = 0 /\ bpm_ = 1 /\ cmd_queue_ = <<>>
  /\ pending_loop_ = NoLoop /\ active_loop_ = NoLoop
  /\ graphs = [g \in 1..MaxGraphs |-> NoGraphObject]
  /\ active_graph_ = NULL /\ owned_graph_ = NULL /\ retiring_graph_ = NULL
  /\ ctl = [stream |-> FALSE, closed |-> FALSE]

LifeNext == LifeSetGraph \/ LifeOpen \/ LifeClose \/ LifeBlock

SpecLifecycle == LifeInit /\ [][LifeNext]_vars

\* ------------------------------------------------ mutexes (SpecLocks)
\* The control thread posting transport commands and preview notes against
\* the audio callback, each thread taking one mutex operation at a time.
\* held[m] is the owner of mutex m; aud.acquired and aud.waited are the
\* mutexes the audio thread has locked and has found locked by the control
\* thread; ctl.posted and aud.applied are the ids of the commands pushed and
\* applied, in order.
MaxPosts == 2

Mutexes == {"cmd_mutex_", "preview_mutex_"}

PostInputs == { [cmd |-> "Play", arg |-> 0], [cmd |-> "Stop", arg |-> 0],
                [cmd |-> "Seek", arg |-> 1] }

\* the mutex an operation of the control thread locks
MutexOf(op) == IF op.kind = "send_cmd" THEN "cmd_mutex_" ELSE "preview_mutex_"

RECURSIVE IdsOf(_)
IdsOf(q) == IF q = <<>> THEN <<>> ELSE <<Head(q).id>> \o IdsOf(Tail(q))

\* mutant: the drained commands stay in the queue
clear_Keep(q) == q

\* cmd_queue_.clear()
clear(q) == <<>>

\* play / stop / seek up to send_cmd's lock (play has run check_pending and
\* stored playing_ by then)
LockSendCmd(c) ==
  /\ ctl.pc = "idle" /\ Len(ctl.posted) < MaxPosts /\ Len(cmd_queue_) < MaxQueue
  /\ ctl' = [ctl EXCEPT !.pc = "want", !.op = [kind |-> "send_cmd", cmd |-> c.cmd, arg |-> c.arg]]
  /\ playing_' = IF c.cmd = "Play" THEN TRUE ELSE playing_
  /\ UNCHANGED <<dispVars, graphVars, current_beat_, bpm_, pending_loop_, active_loop_,
                 cmd_queue_, nodeVars, obsVars, aud>>

\* preview_note_on / preview_note_off up to the node's lock
LockPreview(kind) ==
  /\ ctl.pc = "idle"
  /\ Len(pending_on_) + Len(pending_off_) < MaxPreview
  /\ find_track_source(active_graph_, "track1") # NoNode
  /\ ctl' = [ctl EXCEPT !.pc = "want", !.op = [kind |-> kind, cmd |-> "none", arg |-> 0]]
  /\ UNCHANGED <<dispVars, graphVars, transVars, nodeVars, obsVars, aud>>

\* std::lock_guard constructor on the control thread
CtlAcquire ==
  /\ ctl.pc = "want" /\ held[MutexOf(ctl.op)] = "none"
  /\ held' = [held EXCEPT ![MutexOf(ctl.op)] = "ctl"]
  /\ ctl' = [ctl EXCEPT !.pc = "locked"]
  /\ UNCHANGED <<dispVars, graphVars, transVars, nodeVars, log, blk, aud>>

\* the push_back under the lock, and the unlock as the call returns
CtlPush ==
  /\ ctl.pc = "locked"
  /\ held' = [held EXCEPT ![MutexOf(ctl.op)] = "none"]
  /\ CASE ctl.op.kind = "send_cmd" ->
            /\ cmd_queue_' = Append(cmd_queue_, [cmd |-> ctl.op.cmd, arg |-> ctl.op.arg,
                                                 id |-> Len(ctl.posted) + 1])
            /\ ctl' = [ctl EXCEPT !.pc = "idle", !.posted = Append(@, Len(@) + 1)]
            /\ UNCHANGED nodeVars
       [] ctl.op.kind = "preview_note_on" ->
            /\ pending_on_' = Append(pending_on_, [channel |-> 0, pitch |-> 60, velocity |-> 100])
            /\ ctl' = [ctl EXCEPT !.pc = "idle"]
            /\ UNCHANGED <<cmd_queue_, voices_, pending_off_>>
       [] OTHER ->
            /\ pending_off_' = Append(pending_off_, [channel |-> 0, pitch |-> 60])
            /\ ctl' = [ctl EXCEPT !.pc = "idle"]
            /\ UNCHANGED <<cmd_queue_, voices_, pending_on_>>
  /\ UNCHANGED <<dispVars, graphVars, playing_, current_beat_, bpm_, pending_loop_,
                 active_loop_, log, blk, aud>>

\* process_block is entered: its first statement wants cmd_mutex_
AudEnter ==
  /\ aud.pc = "idle" /\ current_beat_ <= MaxBeat + 1
  /\ aud' = [aud EXCEPT !.pc = "want", !.m = "cmd_mutex_"]
  /\ UNCHANGED <<dispVars, graphVars, transVars, nodeVars, obsVars, ctl>>

\* std::lock_guard constructor on the audio thread finds the mutex locked
AudBlocked ==
  /\ aud.pc = "want" /\ held[aud.m] = "ctl" /\ aud.m \notin aud.waited
  /\ aud' = [aud EXCEPT !.waited = @ \cup {aud.m}]
  /\ UNCHANGED <<dispVars, graphVars, transVars, nodeVars, obsVars, ctl>>

\* std::lock_guard constructor on the audio thread gets the mutex
AudAcquire ==
  /\ aud.pc = "want" /\ held[aud.m] = "none"
  /\ held' = [held EXCEPT ![aud.m] = "aud"]
  /\ aud' = [aud EXCEPT !.pc = "locked", !.acquired = @ \cup {aud.m}]
  /\ UNCHANGED <<dispVars, graphVars, transVars, nodeVars, log, blk, ctl>>

\* process_block: the command loop, cmd_queue_.clear() and the unlock
AudDrain ==
  /\ aud.pc = "locked" /\ aud.m = "cmd_mutex_"
  /\ \E d \in {Drain([playing |-> playing_, beat |-> current_beat_, idx |-> idx_,
                      st |-> [voices |-> voices_, log |-> <<>>]],
                     cmd_queue_, current_, active_graph_)} :
       /\ playing_' = d.playing /\ current_beat_' = d.beat /\ idx_' = d.idx
       /\ voices_' = d.st.voices
  /\ cmd_queue_' = clear(cmd_queue_)
  /\ held' = [held EXCEPT !["cmd_mutex_"] = "none"]
  /\ aud' = [aud EXCEPT !.pc = "want", !.m = "preview_mutex_",
                        !.applied = @ \o IdsOf(cmd_queue_)]
  /\ UNCHANGED <<heap, pending_, current_, graphVars, bpm_, pending_loop_, active_loop_,
                 pending_on_, pending_off_, log, blk, ctl>>

\* process_block after the command loop, the TrackSourceNode's process
\* holding preview_mutex_ included, to the end of the callback
AudRun(dead) ==
  /\ aud.pc = "locked" /\ aud.m = "preview_mutex_"
  /\ \E r \in {process_block([EngineState EXCEPT !.queue = <<>>], dead)} :
       /\ heap' = r.heap /\ pending_' = r.pending /\ current_' = r.current /\ idx_' = r.idx
       /\ playing_' = r.playing /\ current_beat_' = r.beat
       /\ active_loop_' = r.active_loop /\ pending_loop_' = NoLoop
       /\ voices_' = r.voices /\ pending_on_' = r.on /\ pending_off_' = r.off
  /\ held' = [held EXCEPT !["preview_mutex_"] = "none"]
  /\ aud' = [aud EXCEPT !.pc = "idle", !.m = "none", !.blocks = Min(@ + 1, 2)]
  /\ UNCHANGED <<graphVars, bpm_, cmd_queue_, log, blk, ctl>>

LocksInit ==
  /\ heap = [s \in 1..MaxSched |->
              IF s = 1 THEN NewSchedule(<< On(0, "track1"), Off(1, "track1") >>)
              ELSE NoSchedule]
  /\ pending_ = NULL /\ current_ = 1
  /\ idx_ = reindex(heap[1].events_, 0)
  /\ GraphInstalled /\ TransInit /\ NodeInit
  /\ log = <<>> /\ blk = BlkNone
  /\ held = [m \in Mutexes |-> "none"]
  /\ ctl = [pc |-> "idle", op |-> [kind |-> "none", cmd |-> "none", arg |-> 0],
            posted |-> <<>>]
  /\ aud = [pc |-> "idle", m |-> "none", acquired |-> {}, waited |-> {}, applied |-> <<>>,
            blocks |-> 0]

LocksNext ==
  \/ \E c \in PostInputs : LockSendCmd(c)
  \/ \E k \in {"preview_note_on", "preview_note_off"} : LockPreview(k)
  \/ CtlAcquire
  \/ CtlPush
  \/ AudEnter
  \/ AudBlocked
  \/ AudAcquire
  \/ AudDrain
  \/ \E dead \in SUBSET Keys : AudRun(dead)

SpecLocks == LocksInit /\ [][LocksNext]_vars

\* ------------------------------------------- buffer wiring (SpecWire)
\* from_json, activate and blocks of an oscillator and a mixer, declared in
\* either order, with connections that may name a node or a port that does
\* not exist.
WireNodeSeqs == { << "osc", "mix1" >>, << "mix1", "osc" >> }

WireConns ==
  [from_node : {"osc", "ghost"}, from_port : {"audio_out_L", "audio_out_R", "nope"},
   to_node   : {"mix1", "ghost"}, to_port   : {"audio_in_L_0", "nope"}]

WireInit ==
  /\ DispInit /\ TransInit /\ NodeInit /\ ObsInit
  /\ graphs = NoGraph
  /\ active_graph_ = NULL /\ owned_graph_ = NULL /\ retiring_graph_ = NULL
  /\ \E n \in WireNodeSeqs, k \in 0..MaxConns :
       \E c \in [1..k -> WireConns] :
         ctl = [pc |-> "from_json", desc |-> [nodes |-> n, connections |-> c],
                built |-> FALSE, activated |-> FALSE, blocks |-> 0]
  /\ aud = Idle

SpecWire == WireInit /\ [][BuildNext]_vars

\* ------------------------------- schedule replaced in play (SpecTakeUp)
\* An engine playing one schedule is handed another by set_schedule, whose
\* swap_schedule and check_pending an audio block may come between, so the
\* new schedule is taken up by either thread.  ctl keeps the position of the
\* control thread and, as observation, the beat b of a take-up made while
\* playing at b > 0, the beat the playing blocks have reached since, and the
\* events of the new schedule the dispatcher has delivered since.
TakeUpOld == { << On(0, "track1"), Off(MaxBeat, "track1") >> }

TakeUpNew == { << On(0, "synth1"), Off(1, "synth1") >>,
               << On(1, "track1"), Off(MaxBeat, "track1") >>,
               << On(0, "track1"), Off(MaxBeat, "track1") >> }

NotTracked == [b |-> -1, upto |-> -1, seen |-> <<>>, open |-> FALSE]

\* the schedule events (1-based indices) the dispatcher delivered in a block
Dispatched(lg) ==
  LET FromSchedule(l) == ~l.fwd /\ l.ev > 0
      got == SelectSeq(lg, FromSchedule)
  IN  [k \in 1..Len(got) |-> got[k].ev]

\* AudioEngine::set_schedule up to dispatcher_.swap_schedule(s)
TakeUpSwap(batch) ==
  /\ ctl.pc = "idle" /\ FreeSlots # {}
  /\ LET s == CHOOSE x \in FreeSlots : \A y \in FreeSlots : x <= y
     IN  SetDispatcherMembers(
           swap_schedule([heap |-> [heap EXCEPT ![s] = NewSchedule(batch)],
                          pending |-> pending_, current |-> current_, idx |-> idx_], s))
  /\ ctl' = [ctl EXCEPT !.pc = "swapped"]
  /\ UNCHANGED <<graphVars, transVars, nodeVars, obsVars, aud>>

\* AudioEngine::set_schedule from dispatcher_.check_pending() to its return
TakeUpCheck ==
  /\ ctl.pc = "swapped"
  /\ SetDispatcherMembers(check_pending(DispatcherMembers))
  /\ ctl' = IF pending_ = NULL THEN [ctl EXCEPT !.pc = "idle"]
            ELSE IF playing_ /\ current_beat_ > 0
            THEN [pc |-> "idle", t |-> [b |-> current_beat_, upto |-> current_beat_,
                                        seen |-> <<>>, open |-> TRUE]]
            ELSE [pc |-> "idle", t |-> NotTracked]
  /\ UNCHANGED <<graphVars, transVars, nodeVars, obsVars, aud>>

\* play() and stop() between two calls of set_schedule
TakeUpPlay == ctl.pc = "idle" /\ Play
TakeUpStop == ctl.pc = "idle" /\ Stop

\* an audio block; the passage of playback over the new schedule ends with
\* the first block that is not playing or that ends the arrangement
TakeUpBlock(dead) ==
  /\ RunBlock(dead)
  /\ ctl' = IF pending_ # NULL
            THEN IF blk'.playing /\ blk'.start > 0
                 THEN [ctl EXCEPT !.t = [b |-> blk'.start, upto |-> blk'.end,
                                         seen |-> Dispatched(log'),
                                         open |-> blk'.playing_out]]
                 ELSE [ctl EXCEPT !.t = NotTracked]
            ELSE IF ctl.t.open
            THEN IF blk'.playing
                 THEN [ctl EXCEPT !.t.upto = blk'.end,
                                  !.t.seen = @ \o Dispatched(log'),
                                  !.t.open = blk'.playing_out]
                 ELSE [ctl EXCEPT !.t.open = FALSE]
            ELSE ctl
  /\ aud' = aud

TakeUpInit ==
  /\ \E batch \in TakeUpOld :
       heap = [s \in 1..MaxSched |-> IF s = 1 THEN NewSchedule(batch) ELSE NoSchedule]
  /\ pending_ = NULL /\ current_ = 1
  /\ idx_ = reindex(heap[1].events_, 0)
  /\ GraphInstalled /\ TransInit /\ NodeInit /\ ObsInit
  /\ ctl = [pc |-> "idle", t |-> NotTracked]
  /\ aud = Idle

TakeUpNext ==
  \/ \E batch \in TakeUpNew : TakeUpSwap(batch)
  \/ TakeUpCheck
  \/ TakeUpPlay
  \/ TakeUpStop
  \/ \E dead \in SUBSET Keys : TakeUpBlock(dead)

SpecTakeUp == TakeUpInit /\ [][TakeUpNext]_vars

\* ------------------------------- preview calls in order (SpecPreviewOrder)
\* TrackSourceNode::preview_note_on and preview_note_off called on the track
\* source of the installed graph between audio blocks.  ctl keeps, as
\* observation, the calls made since the last block in the order they were
\* made, and the calls the last block found queued.
PreviewCall(kind, pitch) == [kind |-> kind, pitch |-> pitch]

\* TrackSourceNode::preview_note_on(0, pitch, 100)
TrackPreviewNoteOn(pitch) ==
  /\ Len(ctl.calls) < MaxPreview
  /\ pending_on_' = Append(pending_on_, [channel |-> 0, pitch |-> pitch, velocity |-> 100])
  /\ ctl' = [ctl EXCEPT !.calls = Append(@, PreviewCall("on", pitch))]
  /\ UNCHANGED <<dispVars, graphVars, transVars, voices_, pending_off_, obsVars, aud>>

\* TrackSourceNode::preview_note_off(0, pitch)
TrackPreviewNoteOff(pitch) ==
  /\ Len(ctl.calls) < MaxPreview
  /\ pending_off_' = Append(pending_off_, [channel |-> 0, pitch |-> pitch])
  /\ ctl' = [ctl EXCEPT !.calls = Append(@, PreviewCall("off", pitch))]
  /\ UNCHANGED <<dispVars, graphVars, transVars, voices_, pending_on_, obsVars, aud>>

\* an audio block, whose Graph::process runs TrackSourceNode::process
PreviewOrderBlock(dead) ==
  /\ RunBlock(dead)
  /\ ctl' = [calls |-> <<>>, last |-> ctl.calls, blocks |-> Min(ctl.blocks + 1, 2)]
  /\ aud' = aud

PreviewOrderInit ==
  /\ DispInit /\ GraphInstalled /\ TransInit /\ NodeInit /\ ObsInit
  /\ ctl = [calls |-> <<>>, last |-> <<>>, blocks |-> 0]
  /\ aud = Idle

PreviewOrderNext ==
  \/ \E p \in Pitches : TrackPreviewNoteOn(p)
  \/ \E p \in Pitches : TrackPreviewNoteOff(p)
  \/ \E dead \in SUBSET Keys : PreviewOrderBlock(dead)

SpecPreviewOrder == PreviewOrderInit /\ [][PreviewOrderNext]_vars

\* ------------------------------------ track-source fan-out (SpecFanOut)
\* Graph::activate wiring the downstream lists of the track sources of a
\* graph of two track sources and two synths, and scheduled note-ons sent to
\* a track source afterwards.  Connections may repeat, differ in the input
\* port only, start at a node that is no track source, or name a destination
\* that does not exist.  track2 never feeds a track source, so the forwarding
\* of a track source does not come back to it.
FanNodes == << "track1", "track2", "synth1", "synth2" >>

FanTrackSources == {"track1", "track2"}

FanConns ==
  { c \in [from_node : {"track1", "track2", "synth1"}, from_port : {"events"},
           to_node   : {"track2", "synth1", "synth2", "ghost"},
           to_port   : {"events", "gate"}] :
      ~(c.from_node = "track2" /\ c.to_node = "track2") }

\* mutant: a destination is appended once for every connection to it
RECURSIVE wire_downstream_NoDedup(_, _, _, _)
wire_downstream_NoDedup(nodes, conns, src, n) ==
  IF n = 0 THEN <<>>
  ELSE LET prev == wire_downstream_NoDedup(nodes, conns, src, n - 1)
           c    == conns[n]
       IN  IF c.from_node # src THEN prev
           ELSE IF c.to_node \notin Range(nodes) THEN prev
           ELSE Append(prev, c.to_node)

\* the downstream vector Graph::activate builds for track source src from the
\* first n connections
RECURSIVE wire_downstream(_, _, _, _)
wire_downstream(nodes, conns, src, n) ==
  IF n = 0 THEN <<>>
  ELSE LET prev == wire_downstream(nodes, conns, src, n - 1)
           c    == conns[n]
       IN  IF c.from_node # src THEN prev
           ELSE IF c.to_node \notin Range(nodes) THEN prev
           ELSE IF c.to_node \in Range(prev) THEN prev
           ELSE Append(prev, c.to_node)

\* TrackSourceNode::note_on: for (auto* n : downstream_) n->note_on(...), a
\* track source among them forwarding in turn; lg gets one entry per call
RECURSIVE FanForward(_, _, _, _)
FanForward(down, lg, src, k) ==
  IF k > Len(down[src]) THEN lg
  ELSE LET n   == down[src][k]
           lg1 == Append(lg, [from |-> src, to |-> n])
       IN  FanForward(down,
                      IF n \in FanTrackSources THEN FanForward(down, lg1, n, 1) ELSE lg1,
                      src, k + 1)

\* Graph::activate, the wiring of the track sources
FanActivate ==
  /\ ctl.pc = "built"
  /\ graphs' = [graphs EXCEPT
                  !.activated_ = TRUE,
                  !.downstream_ = [t \in FanTrackSources |->
                                     wire_downstream(graphs.nodes_, graphs.connections_,
                                                     t, Len(graphs.connections_))]]
  /\ ctl' = [ctl EXCEPT !.pc = "active"]
  /\ UNCHANGED <<dispVars, active_graph_, owned_graph_, retiring_graph_, transVars,
                 nodeVars, obsVars, aud>>

\* the dispatcher's node->note_on(...) on track source src
FanNoteOn(src) ==
  /\ ctl.pc = "active" /\ ctl.sent < MaxCalls
  /\ log' = FanForward(graphs.downstream_, <<>>, src, 1)
  /\ ctl' = [ctl EXCEPT !.sent = @ + 1, !.to = src]
  /\ UNCHANGED <<dispVars, graphVars, transVars, nodeVars, blk, held, aud>>

FanInit ==
  /\ DispInit /\ TransInit /\ NodeInit /\ ObsInit
  /\ active_graph_ = NULL /\ owned_graph_ = NULL /\ retiring_graph_ = NULL
  /\ \E k \in 0..MaxConns :
       \E c \in [1..k -> FanConns] :
         graphs = [nodes_ |-> FanNodes, connections_ |-> c, activated_ |-> FALSE,
                   downstream_ |-> [t \in FanTrackSources |-> <<>>]]
  /\ ctl = [pc |-> "built", sent |-> 0, to |-> "none"]
  /\ aud = Idle

FanNext ==
  \/ FanActivate
  \/ \E src \in FanTrackSources : FanNoteOn(src)

SpecFanOut == FanInit /\ [][FanNext]_vars

\* ------------------------------------- control source ring (SpecRing)
\* A ControlSourceNode on the audio thread: Dispatcher::dispatch hands it
\* control events through push_control, Graph::process runs its process.
\* graphs holds the node's members, aud the control_out value its last
\* process wrote; ctl keeps, as observation, the value of the most recent
\* push and the number of pushes since the last process.
RING_SIZE == 64

MaxWrites == 130    \* push_control calls in one run

\* the value of the i-th push of a run: 1, 2, 3 in rotation from a chosen start
PushValue(first, i) == ((first + i) % 3) + 1

\* ControlSourceNode members after construction; a ring_ entry never
\* written holds -1, a value no push carries
NewControlSource ==
  [ring_ |-> [k \in 0..(RING_SIZE - 1) |-> -1],
   write_idx_ |-> 0, read_idx_ |-> 0, current_ |-> 0]

\* mutant: a push into a ring that holds RING_SIZE unread entries is dropped
ControlSource_push_control_DropWhenFull(N, value) ==
  IF N.write_idx_ - N.read_idx_ >= RING_SIZE THEN N
  ELSE [N EXCEPT !.ring_[N.write_idx_ % RING_SIZE] = value, !.write_idx_ = @ + 1]

\* ControlSourceNode::push_control(beat, value)
ControlSource_push_control(N, value) ==
  [N EXCEPT !.ring_[N.write_idx_ % RING_SIZE] = value, !.write_idx_ = @ + 1]

\* the while loop of ControlSourceNode::process
RECURSIVE ConsumeRing(_, _)
ConsumeRing(N, wi) ==
  IF N.read_idx_ < wi
  THEN ConsumeRing([N EXCEPT !.current_ = N.ring_[N.read_idx_ % RING_SIZE],
                             !.read_idx_ = @ + 1], wi)
  ELSE N

\* ControlSourceNode::process: the members afterwards; outputs[0].control is
\* their current_
ControlSource_process(N) == ConsumeRing(N, N.write_idx_)

\* the dispatcher's node->push_control(e.beat, e.value) for one control event
RingPush ==
  /\ ctl.pushes < MaxWrites
  /\ graphs' = ControlSource_push_control(graphs, PushValue(ctl.first, ctl.pushes))
  /\ ctl' = [ctl EXCEPT !.pushes = @ + 1,
                        !.last = PushValue(ctl.first, ctl.pushes),
                        !.since = Min(@ + 1, RING_SIZE + 1)]
  /\ UNCHANGED <<dispVars, active_graph_, owned_graph_, retiring_graph_, transVars,
                 nodeVars, obsVars, aud>>

\* one Graph::process running the node
RingProcess ==
  /\ graphs' = ControlSource_process(graphs)
  /\ aud' = [control_out |-> graphs'.current_, processed |-> TRUE,
             overrun |-> ctl.since > RING_SIZE]
  /\ ctl' = [ctl EXCEPT !.since = 0]
  /\ UNCHANGED <<dispVars, active_graph_, owned_graph_, retiring_graph_, transVars,
                 nodeVars, obsVars>>

RingInit ==
  /\ DispInit /\ TransInit /\ NodeInit /\ ObsInit
  /\ active_graph_ = NULL /\ owned_graph_ = NULL /\ retiring_graph_ = NULL
  /\ graphs = NewControlSource
  /\ \E first \in {0, 1} : ctl = [first |-> first, pushes |-> 0, last |-> 0, since |-> 0]
  /\ aud = [control_out |-> 0, processed |-> FALSE, overrun |-> FALSE]

RingNext == RingPush \/ RingProcess

SpecRing == RingInit /\ [][RingNext]_vars

\* --------------------------------------------------------------- claim C1
Indices(n) == [i \in 1..n |-> i]

\* the indices of the current schedule's events that must have been delivered
\* once the blocks have reached beat b, in schedule order
DueEvents(b) ==
  LET evts == heap[current_].events_
      Due(i) == evts[i].beat < b /\ find_node(evts[i].node_id) # NoNode
  IN  SelectSeq(Indices(Len(evts)), Due)

DirectCalls == LET Direct(l) == ~l.fwd IN SelectSeq(log, Direct)

\* C1: over contiguous non-decreasing blocks from beat 0, the hook calls the
\* dispatcher has made are exactly the events with beat < b_n whose node
\* exists, each once, in the schedule's sorted order, each on its own node
\* with the hook of its type.
C1_DispatchExactlyOnceInOrder ==
  LET evts == heap[current_].events_
      got  == DirectCalls
      due  == DueEvents(blk.end)
  IN  /\ Len(got) = Len(due)
      /\ \A k \in 1..Len(got) :
           /\ got[k].ev   = due[k]
           /\ got[k].node = evts[due[k]].node_id
           /\ got[k].hook = HookOf(evts[due[k]].type)

\* two blocks done, an event delivered and a later one still to come
C1_Witness ==
  /\ blk.n >= 2 /\ blk.start > 0
  /\ Len(DirectCalls) >= 1
  /\ idx_ < Len(heap[current_].events_)
  /\ find_node(heap[current_].events_[idx_ + 1].node_id) # NoNode

\* ------------------------------------------------------- claims C7 .. C10
\* the dispatcher cursor stands at the first event with beat >= b
CursorAt(i, b) ==
  LET evts == heap[current_].events_
  IN  /\ i <= Len(evts)
      /\ \A k \in 1..i : evts[k].beat < b
      /\ i < Len(evts) => evts[i + 1].beat >= b

\* log positions of the block's scheduled-event deliveries and node processing
WorkPositions(lg) == {k \in 1..Len(lg) : lg[k].ev > 0 \/ lg[k].hook = "process"}

\* C7: with a loop (start < end) enabled, a block played from a beat below the
\* loop end leaves current_beat below the loop end; when its end_beat reached
\* the loop end it leaves current_beat at the loop start and the cursor at the
\* first event at or after the loop start; it does not clear playing.
C7_LoopKeepsPlayheadInside ==
  (/\ blk.n = 1 /\ blk.playing
   /\ LoopEnabled(active_loop_) /\ active_loop_.start < active_loop_.end
   /\ blk.start < active_loop_.end)
  => /\ current_beat_ < active_loop_.end
     /\ blk.end >= active_loop_.end =>
          /\ blk.wrapped
          /\ current_beat_ = active_loop_.start
          /\ CursorAt(idx_, active_loop_.start)
     /\ blk.playing_out /\ ~blk.ended

\* a block wrapped a loop whose end lies inside the block, not on its boundary
\* grid, while the arrangement had already ended
C7_Witness ==
  /\ blk.n = 1 /\ blk.playing /\ blk.wrapped
  /\ LoopEnabled(active_loop_) /\ active_loop_.start = 1
  /\ blk.start < active_loop_.end /\ blk.end > active_loop_.end
  /\ blk.end >= arrangement_length(current_)
  /\ current_beat_ = 1 /\ playing_

\* C8: with no loop enabled and arrangement_length > 0, a played block whose
\* end_beat is below the arrangement length leaves playing set and the playhead
\* at end_beat; a played block whose end_beat reaches it clears playing, calls
\* all_notes_off(-1) on every node after the block's processing, and leaves
\* current_beat at 0.
C8_EndOfArrangementStops ==
  (/\ blk.n = 1 /\ blk.playing /\ ~LoopEnabled(active_loop_)
   /\ arrangement_length(current_) > 0)
  => IF blk.end >= arrangement_length(current_)
     THEN /\ blk.ended /\ ~blk.playing_out
          /\ current_beat_ = 0
          /\ \A k \in WorkPositions(log) : SweepBetween(log, k + 1, Len(log) + 1)
          /\ WorkPositions(log) # {}
     ELSE /\ ~blk.ended /\ blk.playing_out
          /\ current_beat_ = blk.end

\* the block that reached the end of a two-beat arrangement, a note sounding
C8_Witness ==
  /\ blk.n = 1 /\ blk.playing /\ blk.ended /\ ~playing_
  /\ arrangement_length(current_) = 2 /\ blk.start > 0
  /\ active_loop_.set /\ ~active_loop_.enabled
  /\ \E k \in 1..Len(log) : log[k].ev > 0

SweepCmds == {"Stop", "Seek", "AllNotesOff"}

CountCmds(q, kinds) == Cardinality({i \in 1..Len(q) : q[i].cmd \in kinds})

LastOf(q, kinds) ==
  LET at == {i \in 1..Len(q) : q[i].cmd \in kinds}
  IN  IF at = {} THEN Cmd("none", 0) ELSE q[CHOOSE i \in at : \A j \in at : j <= i]

\* what the block that drained queue q must have done
DrainedRight(q, lg, b) ==
  LET first == IF WorkPositions(lg) = {} THEN Len(lg) + 1
               ELSE CHOOSE k \in WorkPositions(lg) : \A j \in WorkPositions(lg) : k <= j
  IN  /\ \A n \in NodeIds :
           Cardinality({k \in 1..(first - 1) : IsAllOff(lg[k], n)})
             = CountCmds(q, SweepCmds)
      /\ LastOf(q, {"Play", "Stop"}).cmd = "Stop" => ~b.playing /\ ~b.playing_out
      /\ LastOf(q, {"Seek"}).cmd = "Seek" =>
           /\ b.start = LastOf(q, {"Seek"}).arg
           /\ CursorAt(b.idx_drained, LastOf(q, {"Seek"}).arg)

\* C9: the block that drains the command queue calls all_notes_off(-1) on every
\* node once per Stop, Seek or AllNotesOff command, before any scheduled event
\* is delivered and before any node is processed; a Stop that no later Play
\* follows leaves the block not playing; the last Seek decides the beat the
\* block starts at and the cursor.
C9_DrainedCommandsSweepFirst ==
  [][ (cmd_queue_ # <<>> /\ cmd_queue_' = <<>>) => DrainedRight(cmd_queue_, log', blk') ]_vars

\* a block drained a Seek during playback and went on to deliver an event
C9_Witness ==
  /\ blk.n = 1 /\ blk.playing /\ blk.start = MaxBeat
  /\ Len(log) > 0 /\ IsAllOff(log[1], eval_order[1])
  /\ \E k \in 1..Len(log) : log[k].ev > 0

\* C10: no scheduled event is delivered after a loop wrap-around before every
\* node has had all_notes_off(-1).
C10_SweepOnLoopWrap ==
  (blk.n = 1 /\ blk.after_wrap)
  => \A k \in 1..Len(log) : log[k].ev > 0 => SweepBefore(log, k)

\* --------------------------------------------------------------- claim C6
\* C6: a preview note delivered by a block, and not taken back by a preview
\* note-off or preview all-notes-off since, is still sounding on the track's
\* synth after any further blocks and any stop, seek or play in between.
C6_PreviewNoteStaysHeld ==
  \A k \in held : k \in DOMAIN voices_["synth1"] /\ ~voices_["synth1"][k]

\* --------------------------------------------------------------- claim C2
\* C2: a graph pointer is published only once the graph is built and
\* activated, the graph a block picks up is an activated one, and a block
\* that picks up its graph after set_graph(G_i) has returned and before the
\* next set_graph is under way runs G_i.
C2_BlocksRunPublishedGraph ==
  [][ /\ (active_graph_' # active_graph_ => graphs[active_graph_'] = "activated")
      /\ (aud.pc = "idle" /\ aud'.pc = "in_block")
           => /\ aud'.graph # NULL => graphs'[aud'.graph] = "activated"
              /\ ctl.pc = "idle" => aud'.graph = ctl.last ]_vars

\* a block runs G_2 after the second set_graph has returned
C2_Witness ==
  aud.pc = "in_block" /\ ctl.pc = "idle" /\ ctl.last = 2 /\ aud.graph = 2

\* --------------------------------------------------------------- claim C3
\* C3: the graph a block in progress has loaded is never destroyed, for
\* every interleaving of set_graph calls with the block.
C3_RetiredGraphOutlivesBlock ==
  (aud.pc = "in_block" /\ aud.graph # NULL) => graphs[aud.graph] = "activated"

\* --------------------------------------------------------------- claim C4
\* C4: however set_schedule interleaves with an audio block, the audio
\* thread reads no Schedule that has been destroyed and no Schedule is
\* destroyed twice.
C4_NoUseAfterFreeNoDoubleFree ==
  /\ ~aud.read_freed
  /\ \A s \in 1..MaxSched : heap[s].state # "double-freed"

\* --------------------------------------------------------------- claim C5
\* C5: once set_schedule(S) has returned, arrangement_length() is the total
\* length of S, whatever an audio block running alongside has done.
C5_LengthVisibleOnReturn ==
  (ctl.pc = "idle" /\ ctl.returned # NULL)
    => arrangement_length(current_) = heap[ctl.returned].total_length_

\* -------------------------------------------------------------- claim C11
\* the events among evts that lie at beat b and are not note-ons, in order
OthersAt(evts, b) ==
  LET Is(e) == e.beat = b /\ e.type # "note_on" IN SelectSeq(evts, Is)

\* the submitted events with a negative beat moved to beat 0
Submitted(text) ==
  [i \in 1..Len(text.events) |->
     IF text.events[i].beat < 0 THEN [text.events[i] EXCEPT !.beat = 0]
     ELSE text.events[i]]

Accepted == ctl.pc = "returned" /\ ~ctl.err

\* C11: the events of a built schedule are in non-decreasing beat order; at
\* one beat every note-on comes after every other event; and the events at one
\* beat that are not note-ons stand in the order they were submitted in.
C11_SortedOthersKeepSubmissionOrder ==
  Accepted =>
    LET evts == heap[current_].events_ IN
    /\ \A i, j \in 1..Len(evts) : i < j => evts[i].beat <= evts[j].beat
    /\ \A i, j \in 1..Len(evts) :
         (evts[i].beat = evts[j].beat /\ evts[i].type = "note_on"
            /\ evts[j].type # "note_on") => j < i
    /\ \A b \in 0..MaxBeat : OthersAt(evts, b) = OthersAt(Submitted(ctl.arg), b)

\* -------------------------------------------------------------- claim C12
AllKnown(text) ==
  text.wellformed /\ \A i \in 1..Len(text.events) : text.events[i].type \in KnownTypes

CountIn(evts, e) == Cardinality({i \in 1..Len(evts) : evts[i] = e})

\* the log position of the direct delivery of the schedule's event i, 0 if none
DeliveredAt(i) ==
  LET at == {k \in 1..Len(log) : log[k].ev = i /\ ~log[k].fwd}
  IN  IF at = {} THEN 0 ELSE CHOOSE k \in at : TRUE

\* C12: a text whose types are all known is accepted whatever its beats; the
\* stored events are the submitted ones with each negative beat replaced by 0;
\* a batch of negative beats only gives total length 0; and the first block
\* from beat 0 delivers every beat-0 event that is not a note-on before any
\* beat-0 note-on.
C12_NegativeBeatsClampedAndFirst ==
  (ctl.pc = "returned" /\ AllKnown(ctl.arg)) =>
    /\ ~ctl.err
    /\ LET evts == heap[current_].events_
           sub  == Submitted(ctl.arg)
       IN  /\ Len(evts) = Len(sub)
           /\ \A i \in 1..Len(sub) : CountIn(evts, sub[i]) = CountIn(sub, sub[i])
           /\ (\A i \in 1..Len(ctl.arg.events) : ctl.arg.events[i].beat < 0)
                => /\ arrangement_length(current_) = 0
                   /\ \A i \in 1..Len(evts) : evts[i].beat = 0
           /\ (blk.n = 1 /\ blk.start = 0 /\ blk.end > 0) =>
                /\ \A i \in 1..Len(evts) : evts[i].beat = 0 => DeliveredAt(i) > 0
                /\ \A i, j \in 1..Len(evts) :
                     (evts[i].beat = 0 /\ evts[i].type # "note_on"
                        /\ evts[j].beat = 0 /\ evts[j].type = "note_on")
                     => DeliveredAt(i) < DeliveredAt(j)

\* a program change submitted at beat -1 after a beat-0 note-on, the first
\* block done
C12_Witness ==
  /\ ctl.pc = "returned" /\ AllKnown(ctl.arg) /\ Len(ctl.arg.events) = 2
  /\ ctl.arg.events[1].type = "note_on" /\ ctl.arg.events[1].beat = 0
  /\ ctl.arg.events[2].type = "program" /\ ctl.arg.events[2].beat = -1
  /\ blk.n = 1 /\ blk.start = 0 /\ blk.end > 0 /\ Len(log) = 2

\* -------------------------------------------------------------- claim C13
\* C13: a set_schedule call whose text is malformed or holds an event of
\* unknown type returns an error and leaves the dispatcher's schedules,
\* pending slot, current schedule, cursor and arrangement length untouched.
C13_RejectedBatchInstallsNothing ==
  [][ (ctl.pc = "call" /\ ctl'.pc = "returned" /\ ~AllKnown(ctl.arg))
        => /\ ctl'.err
           /\ heap' = heap /\ pending_' = pending_ /\ current_' = current_
           /\ idx_' = idx_
           /\ arrangement_length(current_)' = arrangement_length(current_) ]_vars

\* a schedule was installed; the rejected batch had a valid event first
C13_Witness ==
  /\ ctl.pc = "returned" /\ ctl.err /\ current_ = 1 /\ arrangement_length(current_) > 0
  /\ Len(ctl.arg.events) = 2
  /\ ctl.arg.events[1].type \in KnownTypes /\ ctl.arg.events[2].type \notin KnownTypes

\* -------------------------------------------------------------- claim C14
\* C14: once blocks have run up to a beat, no hook call on any node stems from
\* an event whose node_id the graph does not have, the cursor stands past
\* every event before that beat, such events included, and every event before
\* that beat whose node exists has been delivered to it.
C14_MissingNodeSkipped ==
  blk.n >= 1 =>
    LET evts == heap[current_].events_ IN
    /\ \A k \in 1..Len(log) : find_node(evts[log[k].ev].node_id) # NoNode
    /\ CursorAt(idx_, blk.end)
    /\ \A i \in 1..Len(evts) :
         (evts[i].beat < blk.end /\ find_node(evts[i].node_id) # NoNode)
           => /\ DeliveredAt(i) > 0
              /\ log[DeliveredAt(i)].node = evts[i].node_id

\* one block passed an event for a missing node and delivered the next one
C14_Witness ==
  /\ blk.n = 1 /\ Len(heap[current_].events_) = 2 /\ idx_ = 2
  /\ find_node(heap[current_].events_[1].node_id) = NoNode
  /\ heap[current_].events_[2].node_id = "synth1"
  /\ DeliveredAt(2) > 0 /\ Len(log) = 1

\* -------------------------------------------------------------- claim C15
\* the connections that order two different nodes
OrderingEdges(desc) ==
  {<<desc.connections[k].from_node, desc.connections[k].to_node>> :
     k \in {i \in 1..Len(desc.connections) :
              desc.connections[i].from_node # desc.connections[i].to_node}}

\* a walk of one to k edges leads from a to b
RECURSIVE PathWithin(_, _, _, _)
PathWithin(E, a, b, k) ==
  /\ k >= 1
  /\ \/ <<a, b>> \in E
     \/ \E e \in E : e[1] = a /\ PathWithin(E, e[2], b, k - 1)

HasCycle(desc) ==
  \E n \in Range(desc.nodes) : PathWithin(OrderingEdges(desc), n, n, Len(desc.nodes))

EachNodeOnce(order, nodes) ==
  /\ Len(order) = Len(nodes)
  /\ \A n \in Range(nodes) : Cardinality({i \in 1..Len(order) : order[i] = n}) = 1

\* C15: when the connections of a graph, self-loops set aside, form a DAG over
\* its declared nodes, eval_order after activate() holds every node id exactly
\* once and puts from_node before to_node for every such connection.
C15_DagEvalOrderIsTopological ==
  (ctl.pc = "run" /\ ~HasCycle(ctl.desc)) =>
     /\ EachNodeOnce(graphs.eval_order_, ctl.desc.nodes)
     /\ \A e \in OrderingEdges(ctl.desc) :
          IndexOf(graphs.eval_order_, e[1]) < IndexOf(graphs.eval_order_, e[2])

\* an activated three-node chain declared against the direction of its
\* connections
C15_Witness ==
  /\ ctl.pc = "run" /\ ~HasCycle(ctl.desc)
  /\ Len(ctl.desc.nodes) = 3
  /\ <<ctl.desc.nodes[3], ctl.desc.nodes[2]>> \in OrderingEdges(ctl.desc)
  /\ <<ctl.desc.nodes[2], ctl.desc.nodes[1]>> \in OrderingEdges(ctl.desc)
  /\ graphs.eval_order_ = <<ctl.desc.nodes[3], ctl.desc.nodes[2], ctl.desc.nodes[1]>>

\* -------------------------------------------------------------- claim C16
RunNodes == [i \in 1..Len(log) |-> log[i].node]

TargetsInput(c) == c.to_port \in Range(InputPorts(c.to_node))

\* two connections of the description target the same input port of one node
HasDoubleInput(desc) ==
  \E i, j \in 1..Len(desc.connections) :
    /\ i < j
    /\ TargetsInput(desc.connections[i])
    /\ desc.connections[i].to_node = desc.connections[j].to_node
    /\ desc.connections[i].to_port = desc.connections[j].to_port

\* one output port of the description feeds two different input ports
FanOutPairs(desc) ==
  {p \in (1..Len(desc.connections)) \X (1..Len(desc.connections)) :
     /\ p[1] < p[2]
     /\ TargetsInput(desc.connections[p[1]]) /\ TargetsInput(desc.connections[p[2]])
     /\ desc.connections[p[1]].from_node = desc.connections[p[2]].from_node
     /\ desc.connections[p[1]].from_port = desc.connections[p[2]].from_port
     /\ <<desc.connections[p[1]].to_node, desc.connections[p[1]].to_port>>
          # <<desc.connections[p[2]].to_node, desc.connections[p[2]].to_port>>}

\* the buffer bound to the input port a connection targets
InputBufferOf(c) ==
  graphs.input_buf_indices[c.to_node][IndexOf(InputPorts(c.to_node), c.to_port)]

\* C17: a description with two connections into the same input port of the
\* same node is rejected when the graph is built; a description where one
\* output port feeds several input ports is accepted and all those inputs read
\* the source's buffer.
C17_DoubleInputRejectedFanOutShared ==
  ctl.pc = "run" =>
    /\ HasDoubleInput(ctl.desc) => ~(ctl.built /\ ctl.activated)
    /\ (~HasDoubleInput(ctl.desc) /\ FanOutPairs(ctl.desc) # {}) =>
         /\ ctl.built /\ ctl.activated
         /\ \A p \in FanOutPairs(ctl.desc) :
              /\ InputBufferOf(ctl.desc.connections[p[1]])
                   = InputBufferOf(ctl.desc.connections[p[2]])
              /\ InputBufferOf(ctl.desc.connections[p[1]])
                   = port_buf(ctl.desc.nodes, graphs.output_buf_indices,
                              ctl.desc.connections[p[1]].from_node,
                              ctl.desc.connections[p[1]].from_port)

\* -------------------------------------------------------------- claim C18
\* C18: in every block of an activated graph, pool buffer 0 holds only zeros
\* when each node's process begins, and no output port of any node is bound
\* to index 0.
C18_NullBufferStaysZero ==
  (ctl.pc = "run" /\ graphs.activated_) =>
     /\ \A i \in 1..Len(log) : log[i].null_buffer = 0
     /\ \A id \in Range(graphs.nodes_) :
          \A j \in 1..Len(graphs.output_buf_indices[id]) :
            graphs.output_buf_indices[id][j] # 0

\* a second block in which a mixer with an unconnected input ran after the
\* oscillator had written signal into the pool
C18_Witness ==
  /\ ctl.pc = "run" /\ graphs.activated_ /\ ctl.blocks = 2
  /\ \E i, k \in 1..Len(log) :
       /\ i < k
       /\ log[i].node = "osc"
       /\ graphs.pool_[log[i].outputs[1]] = 1
       /\ BuildType(log[k].node) = "mixer"
       /\ log[k].inputs[2] = 0
       /\ log[k].read[1] = 1
       /\ log[k].null_buffer = 0

\* -------------------------------------------------------------- claim C19
\* the run of a node in the last block
RunOf(node) == log[CHOOSE i \in 1..Len(log) : log[i].node = node]

\* the connections of the description that end on the node's control input
LiveLinks(node) ==
  {k \in 1..Len(ctl.desc.connections) :
     /\ ctl.desc.connections[k].to_node = node
     /\ ctl.desc.connections[k].to_port = FirstControlInput(node).id}

\* every value handed to the node's control input so far, oldest first: the
\* description's params (applied by activate), then the calls made since
RECURSIVE ValuesSet(_, _)
ValuesSet(calls, node) ==
  IF calls = <<>> THEN <<>>
  ELSE IF calls[1].node = node
       THEN <<calls[1].value>> \o ValuesSet(Tail(calls), node)
       ELSE ValuesSet(Tail(calls), node)

AllValuesSet(node) ==
  (IF node = "reverb" THEN ctl.desc.params ELSE <<>>) \o ValuesSet(ctl.calls, node)

\* the value the claim expects the plugin to see on the node's control input
ExpectedControl(node) ==
  IF LiveLinks(node) # {}
  THEN RunOf(ctl.desc.connections[CHOOSE k \in LiveLinks(node) : TRUE].from_node).written
  ELSE IF AllValuesSet(node) # <<>>
       THEN AllValuesSet(node)[Len(AllValuesSet(node))]
       ELSE FirstControlInput(node).default_value

PresentedAsExpected ==
  \A node \in Range(ControlNodes) : RunOf(node).presented = ExpectedControl(node)

\* C19: in every block, each control input of an adapter-wrapped plugin is
\* given the upstream value when the port has a live connection (set_param
\* notwithstanding), otherwise the most recent set_param/push_control value,
\* otherwise the descriptor default.
C19_ControlInputPrecedence ==
  [][(ctl.pc = "run" /\ ctl'.blocks = ctl.blocks + 1) => PresentedAsExpected']_vars

\* -------------------------------------------------------------- claim C20
\* C20: with the control source connected to the reverb's control input, the
\* value the source writes to control_out in a block is the value the reverb
\* reads on room_size in that block.
C20_ControlValueReachesDownstream ==
  (ctl.pc = "run" /\ ctl.blocks >= 1 /\ ControlLink \in Range(ctl.desc.connections)) =>
     RunOf("reverb").input_slot = RunOf("ctl_src").written

\* -------------------------------------------------------------- claim C21
\* no connection of the description lies on a cycle or joins a node to itself
Acyclic(desc) ==
  /\ ~HasCycle(desc)
  /\ \A k \in 1..Len(desc.connections) :
       desc.connections[k].from_node # desc.connections[k].to_node

RECURSIVE Repeat(_, _)
Repeat(s, m) == IF m = 0 THEN <<>> ELSE s \o Repeat(s, m - 1)

\* the connections of the description from u's event output to d
LinksBetween(u, d) ==
  {k \in 1..Len(ctl.desc.connections) :
     /\ ctl.desc.connections[k].from_node = u
     /\ ctl.desc.connections[k].to_node = d}

\* positions in the block's log
ProcessAt(node) == CHOOSE i \in 1..Len(log) : log[i].kind = "process" /\ log[i].node = node

DeliveriesAt(sources, d) ==
  {i \in 1..Len(log) : log[i].kind = "deliver" /\ log[i].node = d /\ log[i].from \in sources}

\* the events logged at a set of positions, in log order
RECURSIVE EventsAt(_, _)
EventsAt(positions, n) ==
  IF n = 0 THEN <<>>
  ELSE EventsAt(positions, n - 1) \o (IF n \in positions THEN log[n].events ELSE <<>>)

ReadsDefaultOrWritten(node) ==
  LET vals == AllValuesSet(node)
  IN  /\ RunOf(node).presented
           \in {FirstControlInput(node).default_value} \cup Range(vals)
      /\ vals # <<>> => RunOf(node).presented = vals[Len(vals)]

\* C22: a set_param on a control input of a node of the active graph is seen
\* by the node's process no later than the next block, and the value a node
\* reads is always the default or a value some set_param wrote.
C22_SetParamSeenByNextBlock ==
  [][(ctl.pc = "run" /\ ctl'.blocks = ctl.blocks + 1) =>
        (\A node \in Range(ControlNodes) : ReadsDefaultOrWritten(node))']_vars

\* -------------------------------------------------------------- claim C23
\* the parameters a node has: the mixer its master gain and one gain per
\* input channel, the reverb its control input
HasParam(nid, name) ==
  \/ /\ nid = "mixer"
     /\ name \in { <<"m","a","s","t","e","r","_","g","a","i","n">>,
                   <<"g","a","i","n","_","0">>, <<"g","a","i","n","_","1">> }
  \/ /\ nid = "reverb"
     /\ name = <<"r","o","o","m","_","s","i","z","e">>

\* C23: a set_param addressed to a node id that is not in the active graph, or
\* to a parameter name the addressed node does not have, changes no node
\* state and raises no error or exception.
C23_UnknownSetParamIsSilentNoOp ==
  [][(ctl'.calls = ctl.calls + 1 /\ ~HasParam(ctl'.last.nid, ctl'.last.name)) =>
        (graphs' = graphs /\ ~ctl'.threw)]_vars

\* -------------------------------------------------------------- claim C24
\* preview_all_notes_off was the last preview call before the block: nothing
\* was queued after it
AllNotesOffQueuedLast ==
  /\ pending_on_ = <<>>
  /\ pending_off_ # <<>>
  /\ pending_off_[Len(pending_off_)].channel = -1

\* C24: the first process of a track source after preview_all_notes_off()
\* delivers all_notes_off(-1) to every downstream node and none of the
\* preview note-ons and note-offs queued before the call.
C24_PreviewAllNotesOffDropsQueued ==
  [][(AllNotesOffQueuedLast /\ pending_off_' = <<>>) =>
        /\ \A d \in Range(downstream_("track1")) :
             \E k \in 1..Len(log') :
               /\ log'[k].node = d /\ log'[k].hook = "all_notes_off"
               /\ log'[k].channel = -1
        /\ \A k \in 1..Len(log') : log'[k].hook \notin {"note_on", "note_off"}]_vars

\* -------------------------------------------------------------- claim C25
\* the step is one audio callback: every other operation enqueues a command
IsBlockStep == Len(cmd_queue_') <= Len(cmd_queue_)

SeekQueued == \E k \in 1..Len(cmd_queue_) : cmd_queue_[k].cmd = "Seek"

Max(a, b) == IF a > b THEN a ELSE b

CeilDiv(a, b) == (a + b - 1) \div b

\* ceil((max(arrangement_length, duration_beats) * 60/bpm + tail_seconds) * sample_rate)
ExpectedFrames(c) ==
  CeilDiv(Max(arrangement_length(current_), c.duration_beats) + c.tail * bpm_, bpm_)

WithinOneBlock(c) ==
  \E F \in (ExpectedFrames(c) - ctl.block)..(ExpectedFrames(c) + ctl.block) :
    c.samples = 2 * F

\* C26: with a graph installed, render_offline(tail_seconds, duration_beats)
\* returns exactly 2*F interleaved samples, F within one block of
\* ceil((max(arrangement_length, duration_beats) * 60/bpm + tail_seconds) *
\* sample_rate); a duration_beats beyond the arrangement lengthens the render.
C26_RenderLengthCoversDuration ==
  active_graph_ # NULL =>
    \A k \in 1..Len(ctl.calls) : WithinOneBlock(ctl.calls[k])

\* -------------------------------------------------------------- claim C27
\* C27: with a graph installed and no schedule, a render asked for a positive
\* duration returns a non-empty result of that duration, silent for a graph
\* no note was sent to.
C27_RenderWithoutScheduleNotEmpty ==
  (active_graph_ # NULL /\ current_ = NULL) =>
    \A k \in 1..Len(ctl.calls) :
      ctl.calls[k].duration_beats > 0 =>
        /\ ctl.calls[k].samples > 0
        /\ ctl.calls[k].samples >= 2 * (CeilDiv(ctl.calls[k].duration_beats, bpm_) - ctl.block)
        /\ \A b \in 1..Len(ctl.calls[k].output) :
             \A s \in SineIds : ctl.calls[k].output[b].sounding[s] = {}

\* -------------------------------------------------------------- claim C28
SameArguments(c1, c2) == c1.tail = c2.tail /\ c1.duration_beats = c2.duration_beats

\* C28: two consecutive render_offline calls with the same arguments and
\* nothing done in between start from the same node state and produce the
\* same event deliveries and the same output block by block, also when the
\* schedule leaves a note held at its end.
C28_ConsecutiveRendersAgree ==
  (Len(ctl.calls) = 2 /\ SameArguments(ctl.calls[1], ctl.calls[2])) =>
    /\ ctl.calls[1].voices_before = ctl.calls[2].voices_before
    /\ ctl.calls[1].output = ctl.calls[2].output

\* -------------------------------------------------------------- claim C29
IsCheckPendingStep == ctl'.checks = ctl.checks + 1

\* C29: a check_pending call made while the pending slot is empty returns
\* false and leaves the schedules, the current schedule, the cursor idx_ and
\* the pending slot as they were; so does every check_pending call that
\* follows another with no swap_schedule in between, whatever dispatch did to
\* the cursor meanwhile.
C29_CheckPendingOnEmptySlotIsNoOp ==
  [][(IsCheckPendingStep /\ (pending_ = NULL \/ ctl.since_swap >= 1)) =>
       /\ ctl'.ret = FALSE
       /\ heap' = heap /\ current_' = current_ /\ idx_' = idx_
       /\ pending_' = NULL /\ pending_ = NULL]_vars

C29_Witness ==
  /\ ctl.since_swap = 2 /\ ctl.ret = FALSE
  /\ current_ # NULL /\ idx_ > 0 /\ pending_ = NULL

\* -------------------------------------------------------------- claim C30
\* every call of the sequence was made and a block ran after the last one
\* (each call leaves pending_loop_ set, only a block empties it)
LoopCallsTakenUp == ctl.done = Len(LoopCalls(ctl.mode)) /\ pending_loop_ = NoLoop

C31_NodeLifecycleOnceEach ==
  \A g \in 1..MaxGraphs : \A n \in NodeIds :
    /\ graphs[g].nodes[n].processed => graphs[g].nodes[n].activate = 1
    /\ ~graphs[g].nodes[n].late
    /\ graphs[g].state = "freed" => graphs[g].nodes[n].deactivate = 1

\* -------------------------------------------------------------- claim C32
\* C32: the audio thread locks no mutex but the command queue's during
\* process_block, and so never finds a mutex held by the control thread other
\* than that one.
C32_AudioThreadLocksOnlyCommandQueue ==
  /\ aud.acquired \subseteq {"cmd_mutex_"}
  /\ aud.waited \subseteq {"cmd_mutex_"}

\* -------------------------------------------------------------- claim C34
\* the audio thread is about to run the command loop of a block
AtDrain == aud.pc = "locked" /\ aud.m = "cmd_mutex_"

\* C34: every command pushed is applied exactly once and in posting order:
\* the ids applied so far followed by the ids still queued are the ids pushed
\* so far; and each block, taking the mutex as it starts, applies all that was
\* pushed before, leaving the queue empty.
C34_CommandsAppliedOnceInOrder ==
  [][/\ ctl'.posted = aud'.applied \o IdsOf(cmd_queue_')
     /\ (AtDrain /\ ~AtDrain') =>
          (cmd_queue_' = <<>> /\ aud'.applied = aud.applied \o IdsOf(cmd_queue_))]_vars

C34_Witness ==
  /\ Len(aud.applied) = MaxPosts /\ aud.applied = ctl.posted
  /\ "cmd_mutex_" \in aud.waited
  /\ aud.blocks = 2

\* -------------------------------------------------------------- claim C33
\* the (node, j) pairs naming the output ports of the graph
OutputSlots ==
  {<<id, j>> : id \in Range(graphs.nodes_), j \in 1..2} \cap
  {s \in Range(graphs.nodes_) \X (1..2) : s[2] <= Len(OutputPorts(s[1]))}

\* the connections into input port `port` of node id whose source is an
\* output port of a declared node
ValidInto(id, port) ==
  {k \in 1..Len(graphs.connections_) :
     /\ graphs.connections_[k].to_node = id
     /\ graphs.connections_[k].to_port = port
     /\ graphs.connections_[k].from_node \in Range(graphs.nodes_)
     /\ graphs.connections_[k].from_port
          \in Range(OutputPorts(graphs.connections_[k].from_node))}

\* the pool index of the output port connection k comes from
SourceIndex(k) ==
  graphs.output_buf_indices[graphs.connections_[k].from_node]
    [IndexOf(OutputPorts(graphs.connections_[k].from_node),
             graphs.connections_[k].from_port)]

\* C33: after activation every output port has its own pool index in
\* [1, pool size); every node has one input index per declared input port and
\* one output index per declared output port, in declared order; and each
\* input index is the index of the output port the input is connected from
\* (the last such connection when there are several), or 0 when no
\* connection into it names an existing output port.
C33_BufferIndicesWired ==
  (ctl.pc = "run" /\ graphs.activated_) =>
    /\ \A s, t \in OutputSlots :
         /\ graphs.output_buf_indices[s[1]][s[2]] \in 1..(Cardinality(DOMAIN graphs.pool_) - 1)
         /\ s # t => graphs.output_buf_indices[s[1]][s[2]]
                       # graphs.output_buf_indices[t[1]][t[2]]
    /\ \A id \in Range(graphs.nodes_) :
         /\ Len(graphs.input_buf_indices[id])  = Len(InputPorts(id))
         /\ Len(graphs.output_buf_indices[id]) = Len(OutputPorts(id))
         /\ \A j \in 1..(Len(OutputPorts(id)) - 1) :
              graphs.output_buf_indices[id][j] < graphs.output_buf_indices[id][j + 1]
         /\ \A j \in 1..Len(InputPorts(id)) :
              LET V == ValidInto(id, InputPorts(id)[j])
              IN  graphs.input_buf_indices[id][j] =
                    IF V = {} THEN 0
                    ELSE SourceIndex(CHOOSE k \in V : \A m \in V : m <= k)

\* the mixer, declared first, has one input wired to the oscillator's right
\* output, while a connection from an unknown port of the oscillator and one
\* from an unknown node left nothing behind
C33_Witness ==
  /\ ctl.pc = "run" /\ graphs.activated_
  /\ graphs.nodes_ = << "mix1", "osc" >>
  /\ graphs.input_buf_indices["mix1"] = << graphs.output_buf_indices["osc"][2], 0 >>
  /\ \E k \in 1..Len(graphs.connections_) :
       /\ graphs.connections_[k].from_node = "osc"
       /\ graphs.connections_[k].from_port = "nope"
       /\ graphs.connections_[k].to_node = "mix1"

\* -------------------------------------------------------------- claim C35
\* C35: at the start of every playing block the dispatcher cursor is not past
\* any event at or after the playhead: every event of the current schedule
\* with beat >= the block's start beat has an index >= the cursor the block
\* dispatches from.
C35_CursorNotPastPlayhead ==
  (blk.playing /\ current_ # NULL) =>
    \A i \in 1..Len(heap[current_].events_) :
      heap[current_].events_[i].beat >= blk.start => i - 1 >= blk.idx_drained

\* -------------------------------------------------------------- claim C36
\* the events of the current schedule with beat in [from, to) whose node
\* exists, in schedule order
EventsBetween(from, to) ==
  LET evts == heap[current_].events_
      In(i) == /\ evts[i].beat >= from /\ evts[i].beat < to
               /\ find_node(evts[i].node_id) # NoNode
  IN  SelectSeq(Indices(Len(evts)), In)

\* C36: after a new schedule was taken up while playing at beat b > 0, the
\* events of it delivered by the following playing blocks are exactly those
\* with beat in [b, playhead), each once and in order: none with beat < b,
\* and every one with beat >= b once the playhead has passed it.
C36_TakeUpDeliversFromPlayhead ==
  ctl.t.b > 0 => ctl.t.seen = EventsBetween(ctl.t.b, ctl.t.upto)

\* taken up at beat 1; the next block walked over the
\* event at beat 0 and delivered the one at beat 1
C36_Witness ==
  /\ ctl.t.b = 1 /\ ctl.t.upto = 2 /\ pending_ = NULL
  /\ heap[current_].events_[1].beat = 0
  /\ ctl.t.seen = << 2 >>

\* -------------------------------------------------------------- claim C37
\* C37: a playing block that starts inside the enabled loop [start, end)
\* delivers no scheduled event with beat >= end, also when the block reaches
\* past the loop end.
C37_NoEventPastLoopEnd ==
  (/\ blk.playing /\ LoopEnabled(active_loop_)
   /\ blk.start >= active_loop_.start /\ blk.start < active_loop_.end) =>
    \A k \in 1..Len(Dispatched(log)) :
      heap[current_].events_[Dispatched(log)[k]].beat < active_loop_.end

\* -------------------------------------------------------------- claim C38
\* among the calls the last block found queued, a preview_note_on of this
\* pitch was followed by a preview_note_off of it, with no later note-on
OnThenOff(calls, pitch) ==
  \E i, j \in 1..Len(calls) :
    /\ i < j
    /\ calls[i] = PreviewCall("on", pitch) /\ calls[j] = PreviewCall("off", pitch)
    /\ \A k \in (j + 1)..Len(calls) : calls[k] # PreviewCall("on", pitch)

\* the downstream hook calls of the last block for this pitch
PreviewHooks(hook, pitch) ==
  {k \in 1..Len(log) : log[k].fwd /\ log[k].hook = hook /\ log[k].pitch = pitch}

\* C38: when preview_note_on(ch, p, v) and then preview_note_off(ch, p) were
\* issued before a block, the downstream nodes received the note-on before
\* the note-off in that block, and the note is not held after it.
C38_PreviewOnThenOffNotHeld ==
  \A p \in Pitches :
    OnThenOff(ctl.last, p) =>
      /\ \E a \in PreviewHooks("note_on", p) :
           \E b \in PreviewHooks("note_off", p) : a < b
      /\ \/ VoiceKey(0, p) \notin DOMAIN voices_["synth1"]
         \/ voices_["synth1"][VoiceKey(0, p)]

\* -------------------------------------------------------------- claim C39
\* the nodes of the graph that an outgoing connection of track source t leads to
Destinations(t) ==
  {graphs.connections_[k].to_node : k \in {i \in 1..Len(graphs.connections_) :
      /\ graphs.connections_[i].from_node = t
      /\ graphs.connections_[i].to_node \in Range(graphs.nodes_)}}

\* the calls track source t itself made while forwarding the last event
CallsBy(t) == {k \in 1..Len(log) : log[k].from = t}

====
